---- MODULE Spec2Model ----
(***************************************************************************)
(* A model of the tick-loop simulation core of the game server:           *)
(* construction (building_system, place_building), the crank and its      *)
(* fractional token accumulator (crank_system), combat (combat_system),   *)
(* hostile behaviour (rogue_ai_system) and the terrain collision oracle   *)
(* (is_walkable).                                                          *)
(*                                                                         *)
(* Floating point quantities are modelled in fixed point: each section    *)
(* names the unit it uses.  Every subsystem has its own specification     *)
(* (SpecBuild, SpecCrank, ...) over the shared variables; a specification *)
(* leaves the variables of the other subsystems at their initial values.  *)
(***************************************************************************)
EXTENDS Integers, Naturals, Sequences, FiniteSets, TLC

VARIABLES
    buildings,            \* World: Seq of [kind, current, total] (Building entities)
    completed_buildings,  \* BuildingSystemResult.completed_buildings of the last tick
    build_log,            \* BuildingSystemResult.log_entries of the last tick (count)
    completions,          \* history: how often each building was reported complete
    agents,               \* World: Seq of agent records (Agent entities, in scan order)
    agent_assignments,    \* ProjectManager.agent_assignments: building id -> Seq of agent ids
    balance,              \* game_state.economy.balance (i64)
    fractional,           \* game_state.economy.fractional (f64), in 1/10000 token
    crank,                \* game_state.crank: [heat, tier, is_cranking, assigned_agent]
    player_cranking,      \* main: the player_cranking flag kept across ticks
    crank_log,            \* CrankResult.log_message of the last tick is Some
    crank_generated,      \* history: sum of CrankResult.tokens_generated, in 1/10000 token
    crank_gain,           \* history: total that crank_system added to balance
    crank_ticks,          \* history: number of crank_system calls
    player,               \* World: the Player entity
    rogues,               \* World: Seq of hostile records (Rogue entities, in scan order)
    god_mode,             \* game_state.god_mode
    combat_result,        \* CombatResult of the last combat_system call
    world_ticks,          \* history: number of ticks of the world pipeline
    combat_hist,          \* history: what the last combat_system call met
    walk_log,             \* history: every is_walkable call of the movement code, in order
    walk_steps,           \* history: number of movement inputs handled
    purchased,            \* game_state.upgrades.purchased
    call,                 \* history: the last fallible call and what it returned
    projectiles,          \* World: Seq of projectile records (Projectile entities, in scan order)
    projectile_result,    \* ProjectileResult of the last projectile_system call
    attack_log,           \* history: tick and weapon of the last attack that took effect
    economy_rates,        \* game_state.economy: income_per_tick and expenditure_per_tick, in 1/10000 token
    economy_ticks,        \* history: number of economy_system calls
    fog,                  \* FogOfWar: [revealed, lit_tiles]
    fog_hist,             \* history: the last update_light call, what it returned, and all returns
    vibe,                 \* VibeManager: [sessions, failed_spawns], sets of agent ids
    vibe_hist,            \* history: the session-management steps, their start attempts
    loop,                 \* main: where the tick loop stands, game_state.tick, the await in progress
    input_rx,             \* GameServer.input_rx: the decoded PlayerInputs not yet received
    dev,                  \* the dev server: ProjectManager.running_processes and the process itself
    net_hist,             \* history: inputs decoded, inputs handled, GameStateUpdates pushed
    game_state            \* GameState: player_dead, death_tick (<<>> is None), spawning_enabled, phase

buildG == <<buildings, completed_buildings, build_log, completions>>
agentG == <<agents, agent_assignments>>
crankG == <<crank, player_cranking, crank_log, crank_generated, crank_gain, crank_ticks>>

worldG == <<player, rogues, god_mode, combat_result, world_ticks, combat_hist>>

\* the movement history, the upgrades and the call history
sideG == <<projectiles, projectile_result, attack_log, economy_rates, economy_ticks, fog, fog_hist>>
vibeG == <<vibe, vibe_hist>>
loopG == <<loop, input_rx, dev, net_hist, game_state>>
restG == <<walk_log, walk_steps, purchased, call, sideG, vibeG, loopG>>

vars == <<buildG, agentG, balance, fractional, crankG, worldG, restG>>

Max(a, b) == IF a >= b THEN a ELSE b
MinUnclamped(a, b) == a
Min(a, b) == IF a <= b THEN a ELSE b

RECURSIVE SumSeq(_)
SumSeq(s) == IF s = <<>> THEN 0 ELSE Head(s) + SumSeq(Tail(s))

(***************************************************************************)
(* Construction.  f32 progress, build time and agent speed are in tenths. *)
(***************************************************************************)
MaxBuildings == 4        \* buildings in the world, the two pre-built ones included
MaxAgents == 2           \* agents in the world, "sol" included
MaxBalance == 60         \* cap of the debug token grant
MaxCalls == 3            \* calls recorded in the call history

StackableKinds == {"Pylon", "ComputeFarm"}
PlaceableKinds == {"Pylon", "TodoApp", "Calculator"}

\* is_stackable / has_escalating_cost
is_stackable_whatever_kind(kind) == TRUE
is_stackable(kind) == kind \in StackableKinds
has_escalating_cost(kind) == kind \in StackableKinds

\* The building definition table (game/building.rs, not part of the sources):
\* token cost and build time per kind.  Calculator is given build time 0 so
\* that a building placed already complete (current = total = 0) occurs.
token_cost(kind) == CASE kind = "Pylon" -> 20
                      [] kind = "TodoApp" -> 10
                      [] OTHER -> 10
build_time(kind) == CASE kind = "Pylon" -> 20
                      [] kind = "TodoApp" -> 30
                      [] OTHER -> 0

count_existing(bs, kind) == Cardinality({i \in 1..Len(bs) : bs[i].kind = kind})

\* escalating_cost: ceil(base_cost * 1.5^existing_count)
RECURSIVE Pow(_, _)
Pow(b, n) == IF n = 0 THEN 1 ELSE b * Pow(b, n - 1)
escalating_cost(base_cost, existing_count) ==
    LET num == base_cost * Pow(3, existing_count)
        den == Pow(2, existing_count)
    IN  (num + den - 1) \div den

\* Agent speed stats the generators can produce (generate_stats: 0.8..1.7;
\* "sol": 1.0), in tenths.
AgentSpeeds == {17}

\* Inputs of the handlers: building ids named by assignments, debug grants
BuildingIds == {"todo_app"}
TokenGrants == {30}
DebugTiers == {"RunicEngine"}

\* assign_task: the state a task maps to
TaskState(task) == CASE task = "Build" -> "Building"
                     [] task = "Explore" -> "Exploring"
                     [] task = "Guard" -> "Defending"
                     [] task = "Crank" -> "Building"
                     [] OTHER -> "Idle"

\* create_world: the starting agent "sol" and the two pre-built buildings
Sol == [state |-> "Dormant", task |-> "Idle", tier |-> "Apprentice", speed |-> 10,
        health |-> 50, x |-> 40000, y |-> 39000, xp |-> 0, recruitable |-> TRUE, cost |-> 10,
        turns_used |-> 0]
\* The call history is kept only in behaviours that start with it switched
\* on; n counts the calls recorded.
NoCalls == [op |-> "off", arg |-> "", err |-> "", n |-> 0]
Returned(op, arg, err) ==
    IF call.op = "off" THEN call ELSE [op |-> op, arg |-> arg, err |-> err, n |-> call.n + 1]

InitBuildings == << [kind |-> "TokenWheel", current |-> 10, total |-> 10],
                    [kind |-> "CraftingTable", current |-> 10, total |-> 10] >>

\* create_world: the crank and the economy
InitCrankState == [heat |-> 0, tier |-> "HandCrank", is_cranking |-> FALSE,
                   assigned_agent |-> 0]

\* create_world: the player
InitPlayer == [x |-> 40000, y |-> 30000, health |-> 100, max |-> 100,
               armor |-> "BasePrompt", weapon |-> "ProcessTerminator",
               cooldown_remaining |-> 0, fdx |-> 0, fdy |-> 1]

\* combat.rs: CombatResult::default()
EmptyCombatResult ==
    [killed_rogues |-> <<>>, killed_agents |-> <<>>, player_damaged |-> FALSE,
     player_hit_damage |-> 0, bounty_tokens |-> 0, player_attacked |-> FALSE]

\* What the last combat_system call met: the armor worn, god_mode, and how many
\* TokenDrain / damaging hostiles stood inside the player's threat radius
EmptyCombatHist == [armor |-> "BasePrompt", god |-> FALSE, drains |-> 0, strikers |-> 0]

EmptyProjectileResult == [despawned |-> <<>>, killed_rogues |-> <<>>, bounty_tokens |-> 0]
NoAttack == [tick |-> 0, weapon |-> ""]

\* what lies outside the part of the program a specification exercises
SideIdle ==
    /\ projectiles = <<>>
    /\ projectile_result = EmptyProjectileResult
    /\ attack_log = NoAttack
    /\ economy_rates = [income_per_tick |-> 0, expenditure_per_tick |-> 0]
    /\ economy_ticks = 0
    /\ fog = [revealed |-> {}, lit_tiles |-> {}]
    /\ fog_hist = [calls |-> 0, lights |-> <<>>, newly_revealed |-> <<>>, returned |-> <<>>]
    /\ vibe = [sessions |-> {}, failed_spawns |-> {}]
    /\ vibe_hist = [ticks |-> 0, attempted |-> {}, started |-> {}, attempts |-> 0]
    /\ loop = [pc |-> "tick", tick |-> 0, polls |-> 0]
    /\ input_rx = <<>>
    /\ dev = [running |-> FALSE, process |-> "none"]
    /\ net_hist = [decoded |-> 0, handled |-> <<>>, systems |-> <<>>, updates |-> <<>>]
    /\ game_state = [player_dead |-> FALSE, death_tick |-> <<>>, spawning_enabled |-> TRUE,
                     phase |-> "Hut"]

InitWorld ==
    /\ buildings = InitBuildings
    /\ completed_buildings = {}
    /\ build_log = 0
    /\ completions = [i \in 1..Len(InitBuildings) |-> 0]
    /\ agents = << Sol >>
    /\ agent_assignments = [bid \in BuildingIds |-> <<>>]
    /\ balance = 0
    /\ fractional = 0
    /\ crank = InitCrankState
    /\ player_cranking = FALSE
    /\ crank_log = FALSE
    /\ crank_generated = 0
    /\ crank_gain = 0
    /\ crank_ticks = 0
    /\ player = InitPlayer
    /\ rogues = <<>>
    /\ god_mode = FALSE
    /\ combat_result = EmptyCombatResult
    /\ world_ticks = 0
    /\ combat_hist = EmptyCombatHist
    /\ walk_log = <<>>
    /\ walk_steps = 0
    /\ purchased = {}
    /\ call = NoCalls
    /\ SideIdle

InitBuild == InitWorld

\* main.rs DebugAddTokens
DebugAddTokens(amount) ==
    /\ balance + amount <= MaxBalance
    /\ balance' = balance + amount
    /\ UNCHANGED <<buildG, agentG, fractional, crankG, worldG, restG>>

\* place_building: uniqueness check, cost, affordability, spawn at current = 0
place_building_ok(bs, bal, kind) ==
    LET existing_count == count_existing(bs, kind)
        actual_cost == IF has_escalating_cost(kind)
                       THEN escalating_cost(token_cost(kind), existing_count)
                       ELSE token_cost(kind)
    IN  /\ ~(~is_stackable(kind) /\ existing_count > 0)
        /\ ~(bal < actual_cost)

place_building_cost(bs, kind) ==
    IF has_escalating_cost(kind)
    THEN escalating_cost(token_cost(kind), count_existing(bs, kind))
    ELSE token_cost(kind)

NewBuilding(kind) == [kind |-> kind, current |-> 0, total |-> build_time(kind)]

PlaceBuilding(kind) ==
    /\ Len(buildings) < MaxBuildings \/ ~place_building_ok(buildings, balance, kind)
    /\ call.n < MaxCalls
    /\ IF place_building_ok(buildings, balance, kind)
       THEN /\ balance' = balance - place_building_cost(buildings, kind)
            /\ buildings' = Append(buildings, NewBuilding(kind))
            /\ completions' = Append(completions, 0)
       ELSE UNCHANGED <<balance, buildings, completions>>
    /\ call' = Returned("place_building", kind,
                        IF place_building_ok(buildings, balance, kind) THEN "ok"
                        ELSE IF ~is_stackable(kind) /\ count_existing(buildings, kind) > 0
                        THEN "Already built" ELSE "Not enough tokens")
    /\ UNCHANGED <<completed_buildings, build_log, agentG, fractional, crankG, worldG,
                   walk_log, walk_steps, purchased, sideG, vibeG, loopG>>

\* recruit_agent (main.rs DebugSpawnAgent): pays the tier's cost and spawns an
\* Idle agent with generated stats and no Assignment component
recruitment_cost(tier) == CASE tier = "Apprentice" -> 20
                            [] tier = "Journeyman" -> 60
                            [] tier = "Artisan" -> 150
                            [] OTHER -> 400

NewAgent(tier, speed, hp, px, py) ==
    [state |-> "Idle", task |-> "None", tier |-> tier, speed |-> speed, health |-> hp,
     x |-> px, y |-> py, xp |-> 0, recruitable |-> FALSE, cost |-> 0,
     turns_used |-> 0]

recruit_agent_ok(bal, tier) == ~(bal < recruitment_cost(tier))

DebugSpawnAgent(tier, speed) ==
    /\ Len(agents) < MaxAgents
    /\ call.n < MaxCalls
    /\ IF recruit_agent_ok(balance, tier)
       THEN /\ balance' = balance - recruitment_cost(tier)
            /\ agents' = Append(agents, NewAgent(tier, speed, 50, player.x + 3000, player.y + 3000))
       ELSE UNCHANGED <<balance, agents>>
    /\ call' = Returned("recruit_agent", tier,
                        IF recruit_agent_ok(balance, tier) THEN "ok" ELSE "Insufficient balance")
    /\ UNCHANGED <<buildG, agent_assignments, fractional, crankG, worldG,
                   walk_log, walk_steps, purchased, sideG, vibeG, loopG>>

\* main.rs RecruitAgent: a Recruitable agent becomes Idle for its cost
RecruitAgent(a) ==
    /\ a \in 1..Len(agents)
    /\ agents[a].recruitable
    /\ IF balance >= agents[a].cost
       THEN /\ balance' = balance - agents[a].cost
            /\ agents' = [agents EXCEPT ![a].recruitable = FALSE, ![a].state = "Idle"]
       ELSE UNCHANGED <<balance, agents>>
    /\ UNCHANGED <<buildG, agent_assignments, fractional, crankG, worldG, restG>>

\* assign_task: refuses Unresponsive agents, else sets state and Assignment
assign_task_err(ags, a) ==
    IF a \notin 1..Len(ags) THEN "Entity does not have an AgentState component"
    ELSE IF ags[a].state = "Unresponsive" THEN "Agent is unresponsive"
    ELSE "ok"
assign_task_whatever_state(ags, a, task) ==
    IF a \notin 1..Len(ags) THEN ags
    ELSE [ags EXCEPT ![a].state = TaskState(task), ![a].task = task]
assign_task(ags, a, task) ==
    IF assign_task_err(ags, a) /= "ok"
    THEN ags
    ELSE [ags EXCEPT ![a].state = TaskState(task), ![a].task = task]

\* ProjectManager::assign_agent / unassign_agent on one building's list
assign_agent_ok_unlimited(list, a) == ~(\E i \in 1..Len(list) : list[i] = a)
assign_agent_ok(list, a) == ~(Len(list) >= 3) /\ ~(\E i \in 1..Len(list) : list[i] = a)
unassign_agent(list, a) == SelectSeq(list, LAMBDA id : id /= a)

\* main.rs AssignAgentToProject: the agent must be Idle and the list accept it
\* vibe/manager.rs: kill_session, clear_failed, mark_failed
kill_session(v, a) == [v EXCEPT !.sessions = @ \ {a}]
clear_failed(v, a) == [v EXCEPT !.failed_spawns = @ \ {a}]
mark_failed_forgotten(v, a) == v
mark_failed(v, a) == [v EXCEPT !.failed_spawns = @ \cup {a}]

AssignAgentToProject(a, bid) ==
    /\ a \in 1..Len(agents)
    /\ call.n < MaxCalls
    /\ IF agents[a].state = "Idle" /\ assign_agent_ok(agent_assignments[bid], a)
       THEN /\ agent_assignments' =
                  [agent_assignments EXCEPT ![bid] = Append(agent_assignments[bid], a)]
            /\ agents' = assign_task(agents, a, "Build")
            /\ call' = Returned("assign_task", "Build", assign_task_err(agents, a))
       ELSE UNCHANGED <<agent_assignments, agents, call>>
    /\ UNCHANGED <<buildG, balance, fractional, crankG, worldG, walk_log, walk_steps, purchased, sideG, vibeG, loopG>>

\* main.rs UnassignAgentFromProject
UnassignAgentFromProject(a, bid) ==
    /\ call.n < MaxCalls
    /\ agent_assignments' =
          [agent_assignments EXCEPT ![bid] = unassign_agent(agent_assignments[bid], a)]
    /\ vibe' = clear_failed(kill_session(vibe, a), a)
    /\ agents' = assign_task(agents, a, "Idle")
    /\ call' = Returned("assign_task", "Idle", assign_task_err(agents, a))
    /\ UNCHANGED <<buildG, balance, fractional, crankG, worldG, walk_log, walk_steps,
                   purchased, sideG, vibe_hist, loopG>>

\* building_system: the builders, their summed speed, the incomplete buildings
IsBuilder(ag) == ag.task /= "None" /\ ag.state = "Building" /\ ag.task = "Build"

builder_count(ags) == Cardinality({a \in 1..Len(ags) : IsBuilder(ags[a])})

total_build_speed(ags) ==
    SumSeq([a \in 1..Len(ags) |-> IF IsBuilder(ags[a]) THEN ags[a].speed ELSE 0])

IsIncomplete(b) == b.current < b.total

incomplete_count(bs) == Cardinality({i \in 1..Len(bs) : IsIncomplete(bs[i])})

Targets(bs) == {i \in 1..Len(bs) : IsIncomplete(bs[i])}

\* lines 86-92: one target's progress step
AdvanceNoClamp(p, speed_per_building) == [p EXCEPT !.current = p.current + speed_per_building]
Advance(p, speed_per_building) ==
    LET cur == p.current + speed_per_building
        now_complete == cur >= p.total
    IN  [p EXCEPT !.current = IF now_complete THEN p.total ELSE cur]

\* line 92: the completion flag of one target
ReportWhileIncomplete(was_incomplete, now_complete) == was_incomplete
ReportCompletion(was_incomplete, now_complete) == was_incomplete /\ now_complete

BuildingSystem ==
    IF builder_count(agents) = 0 \/ total_build_speed(agents) <= 0
       \/ incomplete_count(buildings) = 0
    THEN /\ completed_buildings' = {}
         /\ build_log' = 0
         /\ UNCHANGED <<buildings, completions>>
    ELSE LET speed_per_building == total_build_speed(agents) \div incomplete_count(buildings)
             targets == Targets(buildings)
             stepped == [i \in 1..Len(buildings) |->
                            IF i \in targets
                            THEN Advance(buildings[i], speed_per_building)
                            ELSE buildings[i]]
             done == {i \in targets :
                        ReportCompletion(buildings[i].current < buildings[i].total,
                                         buildings[i].current + speed_per_building
                                             >= buildings[i].total)}
         IN  /\ buildings' = stepped
             /\ completed_buildings' = done
             /\ build_log' = Cardinality(done)
             /\ completions' = [i \in 1..Len(buildings) |->
                                   IF i \in done THEN completions[i] + 1 ELSE completions[i]]

TickBuild == BuildingSystem /\ UNCHANGED <<agentG, balance, fractional, crankG, worldG, restG>>

NextBuild ==
    \/ \E amount \in TokenGrants : DebugAddTokens(amount)
    \/ \E kind \in PlaceableKinds : PlaceBuilding(kind)
    \/ \E tier \in {"Apprentice"}, speed \in AgentSpeeds : DebugSpawnAgent(tier, speed)
    \/ \E a \in 1..MaxAgents : RecruitAgent(a)
    \/ \E a \in 1..MaxAgents, bid \in BuildingIds : AssignAgentToProject(a, bid)
    \/ \E a \in 1..MaxAgents, bid \in BuildingIds : UnassignAgentFromProject(a, bid)
    \/ TickBuild

SpecBuild == InitBuild /\ [][NextBuild]_vars

(***************************************************************************)
(* Crank and fractional accumulator.  Tokens (f64) are in 1/10000 token,   *)
(* heat (f32) is in halves of a heat unit.                                 *)
(***************************************************************************)
MaxCrankTicks == 5       \* crank_system calls in one behaviour

TokenOne == 10000        \* 1.0 token in token units
max_heat == 200          \* create_world: max_heat 100.0
heat_rate == 2           \* create_world: heat_rate 1.0
cool_rate == 1           \* create_world: cool_rate 0.5
tokens_per_rotation == 200   \* create_world: tokens_per_rotation 0.02

CrankTiers == {"HandCrank", "GearAssembly", "WaterWheel", "RunicEngine"}

\* crank_system: tier efficiency, in halves (1.0, 1.5, 2.0, 4.0)
efficiency2(tier) == CASE tier = "HandCrank" -> 2
                       [] tier = "GearAssembly" -> 3
                       [] tier = "WaterWheel" -> 4
                       [] OTHER -> 8

\* crank_system: passive generation 0.006 / 0.04 for the two highest tiers
passive_tokens(tier) == CASE tier = "WaterWheel" -> 60
                          [] tier = "RunicEngine" -> 400
                          [] OTHER -> 0

\* crank_system: bonus of an assigned agent 0.001 / 0.0016 / 0.002 / 0.003
agent_bonus(tier) == CASE tier = "HandCrank" -> 10
                       [] tier = "GearAssembly" -> 16
                       [] tier = "WaterWheel" -> 20
                       [] OTHER -> 30

\* `x as i64`: truncation toward zero of x / TokenOne
TruncWhole(x) == IF x >= 0 THEN x \div TokenOne ELSE -((-x) \div TokenOne)

\* crank_system, manual cranking branch: does this tick generate manual tokens
CranksWhenAsked(cranking) == cranking
CranksThisTick(cranking) == cranking /\ crank.heat < max_heat

\* crank_system: tokens_generated of this tick
tokens_generated(cranking, agent_assigned) ==
    (IF CranksThisTick(cranking)
     THEN (tokens_per_rotation * efficiency2(crank.tier)) \div 2 ELSE 0)
    + passive_tokens(crank.tier)
    + (IF agent_assigned THEN agent_bonus(crank.tier) ELSE 0)

\* crank_system, lines 75-81: the accumulator after adding this tick's tokens,
\* as <<whole units carried into balance, remaining fractional>>
CarryKeepWhole(acc) ==
    LET whole == TruncWhole(acc)
    IN  IF whole > 0 THEN <<whole, acc>> ELSE <<0, acc>>
CarryDropRemainder(acc) ==
    LET whole == TruncWhole(acc)
    IN  IF whole > 0 THEN <<whole, 0>> ELSE <<0, acc>>
Carry(acc) ==
    LET whole == TruncWhole(acc)
    IN  IF whole > 0 THEN <<whole, acc - whole * TokenOne>> ELSE <<0, acc>>

crank_system(cranking, agent_assigned) ==
    LET generated == tokens_generated(cranking, agent_assigned)
        carried == Carry(fractional + generated)
    IN  /\ crank' = [crank EXCEPT
              !.is_cranking = CranksThisTick(cranking),
              !.heat = IF cranking
                       THEN (IF crank.heat < max_heat
                             THEN Min(crank.heat + heat_rate, max_heat)
                             ELSE crank.heat)
                       ELSE Max(crank.heat - cool_rate, 0)]
        /\ crank_log' = (cranking /\ ~(crank.heat < max_heat))
        /\ balance' = balance + carried[1]
        /\ fractional' = carried[2]
        /\ crank_generated' = crank_generated + generated
        /\ crank_gain' = crank_gain + carried[1]
        /\ crank_ticks' = crank_ticks + 1

\* main.rs, step 7: agent_assigned = the assigned entity is still in the world
AgentAssigned == crank.assigned_agent /= 0 /\ crank.assigned_agent \in 1..Len(agents)

TickCrank ==
    /\ crank_ticks < MaxCrankTicks
    /\ crank_system(player_cranking, AgentAssigned)
    /\ UNCHANGED <<buildG, agentG, player_cranking, worldG, restG>>

\* main.rs CrankStart / CrankStop
CrankStart ==
    /\ player_cranking' = TRUE
    /\ UNCHANGED <<buildG, agentG, balance, fractional, crank, crank_log,
                   crank_generated, crank_gain, crank_ticks, worldG, restG>>

CrankStop ==
    /\ player_cranking' = FALSE
    /\ UNCHANGED <<buildG, agentG, balance, fractional, crank, crank_log,
                   crank_generated, crank_gain, crank_ticks, worldG, restG>>

\* main.rs UpgradeWheel: next tier and its cost
NextTier(tier) == CASE tier = "HandCrank" -> "GearAssembly"
                    [] tier = "GearAssembly" -> "WaterWheel"
                    [] tier = "WaterWheel" -> "RunicEngine"
                    [] OTHER -> "None"
UpgradeCost(tier) == CASE tier = "HandCrank" -> 25
                       [] tier = "GearAssembly" -> 75
                       [] tier = "WaterWheel" -> 200
                       [] OTHER -> 0

UpgradeWheel ==
    /\ IF NextTier(crank.tier) /= "None" /\ balance >= UpgradeCost(crank.tier)
       THEN /\ balance' = balance - UpgradeCost(crank.tier)
            /\ crank' = [crank EXCEPT !.tier = NextTier(crank.tier)]
       ELSE UNCHANGED <<balance, crank>>
    /\ UNCHANGED <<buildG, agentG, fractional, player_cranking, crank_log,
                   crank_generated, crank_gain, crank_ticks, worldG, restG>>

\* main.rs DebugSetCrankTier
DebugSetCrankTier(tier) ==
    /\ crank' = [crank EXCEPT !.tier = tier]
    /\ UNCHANGED <<buildG, agentG, balance, fractional, player_cranking, crank_log,
                   crank_generated, crank_gain, crank_ticks, worldG, restG>>

\* main.rs AssignAgentToWheel: any agent that is not Dormant
AssignAgentToWheel(a) ==
    /\ IF a \in 1..Len(agents) /\ agents[a].state /= "Dormant"
       THEN crank' = [crank EXCEPT !.assigned_agent = a]
       ELSE UNCHANGED crank
    /\ UNCHANGED <<buildG, agentG, balance, fractional, player_cranking, crank_log,
                   crank_generated, crank_gain, crank_ticks, worldG, restG>>

\* main.rs UnassignAgentFromWheel
UnassignAgentFromWheel ==
    /\ crank' = [crank EXCEPT !.assigned_agent = 0]
    /\ UNCHANGED <<buildG, agentG, balance, fractional, player_cranking, crank_log,
                   crank_generated, crank_gain, crank_ticks, worldG, restG>>

\* States the crank reaches after a run of HandCrank ticks: the accumulator is
\* empty or holds 0.9 token not yet carried, the heat is 0 or 98.0.
StartFractionals == {0, 9000}
StartHeats == {0, 196}

InitCrank ==
    /\ buildings = InitBuildings
    /\ completed_buildings = {}
    /\ build_log = 0
    /\ completions = [i \in 1..Len(InitBuildings) |-> 0]
    /\ agents = << Sol >>
    /\ agent_assignments = [bid \in BuildingIds |-> <<>>]
    /\ balance = 0
    /\ fractional \in StartFractionals
    /\ crank \in {[InitCrankState EXCEPT !.heat = h] : h \in StartHeats}
    /\ player_cranking = FALSE
    /\ crank_log = FALSE
    /\ crank_generated = fractional
    /\ crank_gain = 0
    /\ crank_ticks = 0
    /\ player = InitPlayer
    /\ rogues = <<>>
    /\ god_mode = FALSE
    /\ combat_result = EmptyCombatResult
    /\ world_ticks = 0
    /\ combat_hist = EmptyCombatHist
    /\ walk_log = <<>>
    /\ walk_steps = 0
    /\ purchased = {}
    /\ call = NoCalls
    /\ SideIdle

NextCrank ==
    \/ CrankStart
    \/ CrankStop
    \/ UpgradeWheel
    \/ \E tier \in DebugTiers : DebugSetCrankTier(tier)
    \/ \E a \in 1..MaxAgents : AssignAgentToWheel(a)
    \/ UnassignAgentFromWheel
    \/ \E amount \in TokenGrants : DebugAddTokens(amount)
    \/ \E a \in 1..MaxAgents : RecruitAgent(a)
    \/ TickCrank

SpecCrank == InitCrank /\ [][NextCrank]_vars

(***************************************************************************)
(* Terrain: game/collision.rs.  A 32-bit word is a pair <<hi, lo>> of      *)
(* 16-bit halves; the f64 noise values are exact rationals, kept as digits *)
(* in base D = scale^3.                                                    *)
(***************************************************************************)
W16 == 65536

\* i32 -> its two's complement word
Word(x) == <<(x \div W16) % W16, x % W16>>

\* a * b for a < 2^16, b < 2^16, as <<high half, low half>>
Mul16(a, b) ==
    LET p1 == a * (b % 256)
        p2 == a * (b \div 256)
        low == (p2 % 256) * 256 + p1
    IN  <<p2 \div 256 + low \div W16, low % W16>>

\* wrapping_mul and wrapping_add on words
WrappingMul(u, c) ==
    LET ll == Mul16(u[2], c[2])
    IN  <<(ll[1] + Mul16(u[1], c[2])[2] + Mul16(u[2], c[1])[2]) % W16, ll[2]>>

WrappingAdd(u, v) ==
    LET low == u[2] + v[2]
    IN  <<(u[1] + v[1] + low \div W16) % W16, low % W16>>

\* bitwise exclusive or of two n-bit numbers
RECURSIVE XorBits(_, _, _)
XorBits(a, b, n) ==
    IF n = 0 THEN 0
    ELSE ((a + b) % 2) + 2 * XorBits(a \div 2, b \div 2, n - 1)

XorWord(u, v) == <<XorBits(u[1], v[1], 16), XorBits(u[2], v[2], 16)>>

\* h >> 13 and h >> 16 on an i32 (arithmetic shift: the sign bit is copied in)
Shr13(u) == <<u[1] \div 8192 + (IF u[1] >= 32768 THEN 65528 ELSE 0),
              u[2] \div 8192 + (u[1] % 8192) * 8>>
Shr16(u) == <<IF u[1] >= 32768 THEN 65535 ELSE 0, u[1]>>

\* Op(v), with v evaluated once
Once(Op(_), v) == CHOOSE r \in {Op(w) : w \in {v}} : TRUE

\* hash, line 16: h ^ (h >> 13), then the multiplication
MixShift13(h) == XorWord(h, Shr13(h))
MixMul(h) == WrappingMul(h, Word(1274126177))
\* hash, line 17, and the mask: the low half of h ^ (h >> 16)
MixLow16(h) == XorBits(h[2], h[1], 16)

\* hash(x, y, seed) & 0xffff
hash16(x, y, seed) ==
    Once(MixLow16,
         Once(MixMul,
              Once(MixShift13,
                   WrappingAdd(WrappingAdd(WrappingMul(Word(x), Word(374761393)),
                                           WrappingMul(Word(y), Word(668265263))),
                               Word(seed)))))

\* the hash value of lattice corner (ix + cx, iy + cy) in a set n of
\* <<cx, cy, value>> triples
Corner(n, cx, cy) == (CHOOSE c \in n : c[1] = cx /\ c[2] = cy)[3]

\* noise, line 33, one row: n0y (1 - ux) + n1y ux, times D
Lerp(n, cy, ux, D) == Corner(n, 0, cy) * (D - ux) + Corner(n, 1, cy) * ux

\* noise, line 33: the digits of row0 (D - uy) + row1 uy in base D
NoiseDigits(n, ux, uy, D) ==
    LET low == (Lerp(n, 0, ux, D) % D) * (D - uy) + (Lerp(n, 1, ux, D) % D) * uy
        mid == (Lerp(n, 0, ux, D) \div D) * (D - uy) + (Lerp(n, 1, ux, D) \div D) * uy
                   + low \div D
    IN  <<mid \div D, mid % D, low % D>>

\* noise(x, y, scale, seed) * 65535 * D^2 as base-D digits <<n2, n1, n0>>,
\* for integer x, y and D = scale^3: ux = kx^2 (3 scale - 2 kx) / D
noise(x, y, scale, seed) ==
    LET kx == x % scale
        ky == y % scale
    IN  Once(LAMBDA n : NoiseDigits(n, kx * kx * (3 * scale - 2 * kx),
                                    ky * ky * (3 * scale - 2 * ky), scale * scale * scale),
             {<<c[1], c[2], hash16(x \div scale + c[1], y \div scale + c[2], seed)>> :
                 c \in {0, 1} \X {0, 1}})

\* octave i of a set o of <<i, digits>> pairs
Octave(o, i) == (CHOOSE p \in o : p[1] = i)[2]

\* the digits of 4 o0 + 2 o1 + o2 in base D
FbmDigits(o, D) ==
    LET d0 == 4 * Octave(o, 0)[3] + 2 * Octave(o, 1)[3] + Octave(o, 2)[3]
        d1 == 4 * Octave(o, 0)[2] + 2 * Octave(o, 1)[2] + Octave(o, 2)[2] + d0 \div D
    IN  <<4 * Octave(o, 0)[1] + 2 * Octave(o, 1)[1] + Octave(o, 2)[1] + d1 \div D,
          d1 % D, d0 % D>>

\* fbm(x, y, scale, seed, 3) * 1.75 * 4 * 65535 * D^2 as base-D digits:
\* octave i has frequency 2^i, amplitude 2^-i and seed + 1000 i
fbm(x, y, scale, seed) ==
    Once(LAMBDA o : FbmDigits(o, scale * scale * scale),
         {<<i, noise(<<1, 2, 4>>[i + 1] * x, <<1, 2, 4>>[i + 1] * y, scale,
                     seed + i * 1000)>> : i \in 0..2})

\* lexicographic a > b on digit triples
DigitsGreater(a, b) ==
    \/ a[1] > b[1]
    \/ a[1] = b[1] /\ a[2] > b[2]
    \/ a[1] = b[1] /\ a[2] = b[2] /\ a[3] > b[3]

\* 0.68 * 7 * 65535 * 8000^2 = 311946 * 8000^2 + 4800 * 8000
WATER_THRESHOLD == <<311946, 4800, 0>>
\* 0.72 * 7 * 65535 * 4096^2 = 330296 * 4096^2 + 1638 * 4096 + 1638.4
ELEV_THRESHOLD == <<330296, 1638, 1638>>

is_water_at(wx, wy) ==
    Once(LAMBDA v : DigitsGreater(v, WATER_THRESHOLD), fbm(wx, wy, 20, 777))
is_elevated_at(wx, wy) ==
    Once(LAMBDA v : DigitsGreater(v, ELEV_THRESHOLD), fbm(wx, wy, 16, 333))

\* The two predicates are tabulated once over the tiles around the places the
\* player is put at, and computed on demand elsewhere.
WalkSpots == {<<40000, 30000>>, <<63700, 44100>>, <<67000, 28200>>,
              <<31900, -17000>>, <<20700, -18400>>}
\* the tiles ahead of the starting place, walked by a player that runs on
RunTiles == {25} \X (16..27)
TabulatedTiles ==
    RunTiles \cup
    UNION {((sp[1] \div 1600 - 1)..(sp[1] \div 1600 + 1))
             \X ((sp[2] \div 1600 - 3)..(sp[2] \div 1600 + 1)) : sp \in WalkSpots}
WaterTable == {<<t[1], t[2], is_water_at(t[1], t[2])>> : t \in TabulatedTiles}
ElevatedTable == {<<t[1], t[2], is_elevated_at(t[1], t[2])>> : t \in TabulatedTiles}

is_water(wx, wy) ==
    IF <<wx, wy>> \in TabulatedTiles THEN <<wx, wy, TRUE>> \in WaterTable
    ELSE is_water_at(wx, wy)
is_elevated(wx, wy) ==
    IF <<wx, wy>> \in TabulatedTiles THEN <<wx, wy, TRUE>> \in ElevatedTable
    ELSE is_elevated_at(wx, wy)

is_walkable_anywhere(wx, wy) == TRUE
is_walkable_without_cliff_top(wx, wy) ==
    IF is_water(wx, wy) THEN FALSE
    ELSE IF is_elevated(wx, wy) THEN TRUE
    ELSE IF is_elevated(wx, wy - 2) /\ ~is_elevated(wx, wy - 1) THEN FALSE
    ELSE TRUE
is_walkable_without_water(wx, wy) ==
    IF is_elevated(wx, wy) THEN TRUE
    ELSE IF is_elevated(wx, wy - 1) THEN FALSE
    ELSE IF is_elevated(wx, wy - 2) /\ ~is_elevated(wx, wy - 1) THEN FALSE
    ELSE TRUE
is_walkable(wx, wy) ==
    IF is_water(wx, wy) THEN FALSE
    ELSE IF is_elevated(wx, wy) THEN TRUE
    ELSE IF is_elevated(wx, wy - 1) THEN FALSE
    ELSE IF is_elevated(wx, wy - 2) /\ ~is_elevated(wx, wy - 1) THEN FALSE
    ELSE TRUE

TILE_PX == 1600
\* pixel_to_tile on a coordinate in hundredths
pixel_to_tile(px) == px \div TILE_PX

(***************************************************************************)
(* World of the combat and behaviour systems.  Positions, distances and    *)
(* speeds (f32) are in hundredths of a world unit.                         *)
(***************************************************************************)
MaxRogues == 2           \* hostiles in the world
MaxCombatTicks == 2      \* combat_system calls in one behaviour

RogueKinds == {"Corruptor", "Looper", "TokenDrain", "Assassin", "Swarm", "Mimic", "Architect"}

\* combat.rs: bounty_for, rogue_damage_to_player, rogue_damage_to_agent
bounty_for(kind) == CASE kind = "Swarm" -> 5
                      [] kind = "Corruptor" -> 15
                      [] kind = "Looper" -> 10
                      [] kind = "TokenDrain" -> 12
                      [] kind = "Assassin" -> 30
                      [] kind = "Mimic" -> 15
                      [] OTHER -> 50

rogue_damage_to_player(kind) == CASE kind = "Swarm" -> 1
                                  [] kind = "Corruptor" -> 2
                                  [] kind = "Looper" -> 1
                                  [] kind = "Assassin" -> 5
                                  [] kind = "Mimic" -> 3
                                  [] kind = "TokenDrain" -> 0
                                  [] OTHER -> 3

rogue_damage_to_agent(kind) == CASE kind = "Assassin" -> 8
                                 [] kind = "Corruptor" -> 3
                                 [] OTHER -> 2

\* spawn.rs: hit points per hostile type
rogue_hp(kind) == CASE kind = "Swarm" -> 15
                    [] kind = "Corruptor" -> 40
                    [] kind = "Looper" -> 25
                    [] kind = "TokenDrain" -> 20
                    [] kind = "Assassin" -> 35
                    [] kind = "Mimic" -> 30
                    [] OTHER -> 80

\* weapon_stats: range in hundredths, arc in degrees
weapon_stats(weapon) ==
    CASE weapon = "ProcessTerminator" ->
            [base_damage |-> 8, cooldown_ticks |-> 6, range |-> 3000, arc_degrees |-> 90,
             is_projectile |-> FALSE]
      [] weapon = "HardReset" ->
            [base_damage |-> 24, cooldown_ticks |-> 20, range |-> 3500, arc_degrees |-> 180,
             is_projectile |-> FALSE]
      [] weapon = "SignalJammer" ->
            [base_damage |-> 14, cooldown_ticks |-> 12, range |-> 4000, arc_degrees |-> 120,
             is_projectile |-> FALSE]
      [] weapon = "NullPointer" ->
            [base_damage |-> 16, cooldown_ticks |-> 16, range |-> 12000, arc_degrees |-> 0,
             is_projectile |-> TRUE]
      [] OTHER ->
            [base_damage |-> 10, cooldown_ticks |-> 10, range |-> 2500, arc_degrees |-> 360,
             is_projectile |-> FALSE]

ArmorTypes == {"BasePrompt", "FewShotPadding", "ChainOfThoughtMail", "ConstitutionalPlate"}

\* armor_stats: damage_reduction (as i32) and speed_penalty in percent
armor_stats(armor) ==
    CASE armor = "BasePrompt" -> [damage_reduction |-> 2, speed_penalty |-> 0]
      [] armor = "FewShotPadding" -> [damage_reduction |-> 5, speed_penalty |-> 0]
      [] armor = "ChainOfThoughtMail" -> [damage_reduction |-> 10, speed_penalty |-> 10]
      [] OTHER -> [damage_reduction |-> 18, speed_penalty |-> 25]

\* spawn_system / camp_spawner_system: a hostile as spawned
NewRogue(id, kind, px, py) ==
    [id |-> id, kind |-> kind, x |-> px, y |-> py, vx |-> 0, vy |-> 0,
     health |-> rogue_hp(kind), behavior_state |-> "Wandering", target |-> <<"none", 0>>,
     guardian |-> FALSE, home_x |-> 0, home_y |-> 0, leash_radius |-> 0,
     patrol_waypoint_x |-> 0, patrol_waypoint_y |-> 0, patrol_pause |-> 0]

\* combat.rs: distance_sq
distance_sq(ax, ay, bx, by) == (ax - bx) * (ax - bx) + (ay - by) * (ay - by)

\* combat.rs: is_in_arc.  The facing is kept as the movement input (fdx, fdy) in
\* {-1,0,1}^2 whose normalisation it is, so dot = d / (sqrt f2 * len), and
\* dot >= cos(arc / 2) is decided on squares: cos 45 = 1/sqrt 2, cos 60 = 1/2,
\* cos 90 = 0, cos 0 = 1.
is_in_arc(fdx, fdy, ax, ay, tx, ty, arc_degrees) ==
    LET dir_x == tx - ax
        dir_y == ty - ay
        len2 == dir_x * dir_x + dir_y * dir_y
        d == fdx * dir_x + fdy * dir_y
        f2 == fdx * fdx + fdy * fdy
    IN  IF arc_degrees >= 360 THEN TRUE
        ELSE IF len2 = 0 THEN TRUE
        ELSE CASE arc_degrees = 180 -> d >= 0
               [] arc_degrees = 120 -> d >= 0 /\ 4 * d * d >= f2 * len2
               [] arc_degrees = 90 -> d >= 0 /\ 2 * d * d >= f2 * len2
               [] OTHER -> d >= 0 /\ d * d >= f2 * len2

player_threat_range_sq == 2000 * 2000
agent_threat_range_sq == 2500 * 2500

\* combat_system, lines 143-183: the melee pass over the hostiles
MeleeWheneverAsked(pl, attacking) ==
    attacking /\ ~weapon_stats(pl.weapon).is_projectile
MeleeActive(pl, attacking) ==
    attacking /\ pl.cooldown_remaining = 0 /\ ~weapon_stats(pl.weapon).is_projectile
ProjectileActive(pl, attacking) ==
    attacking /\ pl.cooldown_remaining = 0 /\ weapon_stats(pl.weapon).is_projectile

MeleeHits(pl, r) ==
    LET w == weapon_stats(pl.weapon)
    IN  /\ ~(distance_sq(pl.x, pl.y, r.x, r.y) > w.range * w.range)
        /\ is_in_arc(pl.fdx, pl.fdy, pl.x, pl.y, r.x, r.y, w.arc_degrees)

\* combat_system, line 212: armor-mitigated damage of one hostile
FinalDamageNoFloor(raw_dmg, player_armor_def) == Max(raw_dmg - player_armor_def, 0)
FinalDamage(raw_dmg, player_armor_def) == Max(raw_dmg - player_armor_def, 1)

\* combat_system, line 206: one TokenDrain in range
DrainNoFloor(bal) == bal - 1
Drain(bal) == Max(bal - 1, 0)

\* combat_system, lines 197-222: the hostile-to-player pass, hostile by hostile
\* in scan order; acc is [health, balance, hit, damaged]
RECURSIVE PlayerPass(_, _, _, _)
PlayerPass(rs, i, pl, acc) ==
    IF i > Len(rs) THEN acc
    ELSE LET r == rs[i]
         IN  IF distance_sq(pl.x, pl.y, r.x, r.y) > player_threat_range_sq
             THEN PlayerPass(rs, i + 1, pl, acc)
             ELSE IF r.kind = "TokenDrain"
             THEN PlayerPass(rs, i + 1, pl,
                             [acc EXCEPT !.balance = Drain(acc.balance)])
             ELSE LET raw_dmg == rogue_damage_to_player(r.kind)
                  IN  IF raw_dmg > 0
                      THEN LET final_dmg ==
                                   FinalDamage(raw_dmg, armor_stats(pl.armor).damage_reduction)
                           IN  PlayerPass(rs, i + 1, pl,
                                          [acc EXCEPT !.health = acc.health - final_dmg,
                                                      !.hit = acc.hit + final_dmg,
                                                      !.damaged = TRUE])
                      ELSE PlayerPass(rs, i + 1, pl, acc)

\* combat_system, lines 237-258: one targetable agent against the hostiles in
\* scan order, stopping at the hostile that kills it
RECURSIVE AgentPass(_, _, _)
AgentPass(ag, rs, j) ==
    IF j > Len(rs) THEN ag
    ELSE IF distance_sq(ag.x, ag.y, rs[j].x, rs[j].y) > agent_threat_range_sq
    THEN AgentPass(ag, rs, j + 1)
    ELSE LET hp == ag.health - rogue_damage_to_agent(rs[j].kind)
         IN  IF hp <= 0
             THEN [ag EXCEPT !.health = hp, !.state = "Unresponsive"]
             ELSE AgentPass([ag EXCEPT !.health = hp], rs, j + 1)

\* combat_system, line 197
PlayerPassAlways(god) == TRUE
PlayerPassRuns(god) == ~god

Targetable(ag) == ag.state /= "Unresponsive" /\ ag.state /= "Dormant"

\* combat_system, lines 260-263: the hostiles in killed_rogues leave the world
DespawnNothing(rs, killed) == rs
Despawn(rs, killed) == SelectSeq(rs, LAMBDA r : \A i \in killed : rs[i].id /= r.id)

\* main.rs, lines 585-599 and 838-851: the ids the snapshot of a tick lists as
\* removed, and the hostiles among the entities it lists as changed
entities_removed(result) == {result.killed_rogues[i] : i \in 1..Len(result.killed_rogues)}
entities_changed(rs) == {rs[i].id : i \in 1..Len(rs)}

\* combat_system as a function of the world: the new player, hostiles, agents,
\* balance and the CombatResult
combat_system(pl, rs, ags, bal, god, attacking) ==
    LET w == weapon_stats(pl.weapon)
        melee == MeleeActive(pl, attacking)
        attacked == melee \/ ProjectileActive(pl, attacking)
        rs1 == [i \in 1..Len(rs) |->
                   IF melee /\ MeleeHits(pl, rs[i])
                   THEN [rs[i] EXCEPT !.health = rs[i].health - w.base_damage]
                   ELSE rs[i]]
        killed == {i \in 1..Len(rs) : melee /\ MeleeHits(pl, rs[i]) /\ rs1[i].health <= 0}
        bounty == SumSeq([i \in 1..Len(rs) |-> IF i \in killed THEN bounty_for(rs[i].kind) ELSE 0])
        acc0 == [health |-> pl.health, balance |-> bal, hit |-> 0, damaged |-> FALSE]
        acc == IF PlayerPassRuns(god) THEN PlayerPass(rs, 1, pl, acc0) ELSE acc0
        ags1 == [a \in 1..Len(ags) |->
                    IF Targetable(ags[a]) THEN AgentPass(ags[a], rs, 1) ELSE ags[a]]
        dead == {a \in 1..Len(ags) : Targetable(ags[a]) /\ ags1[a].health <= 0}
    IN  [player |-> [pl EXCEPT !.health = acc.health,
                               !.cooldown_remaining =
                                   IF attacked THEN w.cooldown_ticks ELSE pl.cooldown_remaining],
         rogues |-> Despawn(rs1, killed),
         agents |-> ags1,
         balance |-> acc.balance + bounty,
         result |-> [killed_rogues |-> SelectSeq([i \in 1..Len(rs) |-> rs[i].id],
                                                 LAMBDA id : \E i \in killed : rs[i].id = id),
                     killed_agents |-> SelectSeq([a \in 1..Len(ags) |-> a],
                                                 LAMBDA a : a \in dead),
                     player_damaged |-> acc.damaged,
                     player_hit_damage |-> acc.hit,
                     bounty_tokens |-> bounty,
                     player_attacked |-> attacked]]

\* main.rs, lines 102-107: the cooldown decrement at the start of a tick
DecrementCooldown(pl) ==
    IF pl.cooldown_remaining > 0
    THEN [pl EXCEPT !.cooldown_remaining = pl.cooldown_remaining - 1] ELSE pl

InPlayerThreat(r) ==
    (r.x - player.x) * (r.x - player.x) + (r.y - player.y) * (r.y - player.y) <= 2000 * 2000

MetByCombat(pl, rs, god) ==
    [armor |-> pl.armor, god |-> god,
     drains |-> Cardinality({i \in 1..Len(rs) :
                    /\ ~(distance_sq(pl.x, pl.y, rs[i].x, rs[i].y) > player_threat_range_sq)
                    /\ rs[i].kind = "TokenDrain"}),
     strikers |-> Cardinality({i \in 1..Len(rs) :
                    /\ ~(distance_sq(pl.x, pl.y, rs[i].x, rs[i].y) > player_threat_range_sq)
                    /\ rs[i].kind /= "TokenDrain"
                    /\ rogue_damage_to_player(rs[i].kind) > 0})]

(***************************************************************************)
(* Projectiles (main.rs, lines 533-553; ecs/systems/projectile.rs)         *)
(***************************************************************************)
\* one axis of norm * effective_speed for a movement input (mx, my) in {-1,0,1}^2:
\* the norm of a diagonal input is 1 / sqrt 2
AxisStep(m, other, effective_speed) ==
    IF other = 0 THEN m * effective_speed
    ELSE m * ((effective_speed * 7071) \div 10000)

PROJECTILE_SPEED == 600
HIT_RANGE == 800
MaxShotTicks == 21

\* the entity the crossbow shot becomes: it starts at the player and flies
\* along the player's facing; calls counts the projectile_system calls it saw
NewProjectile(pl, id) ==
    [id |-> id, x |-> pl.x, y |-> pl.y, dx |-> pl.fdx, dy |-> pl.fdy,
     speed |-> PROJECTILE_SPEED, damage |-> weapon_stats(pl.weapon).base_damage,
     range_remaining |-> weapon_stats(pl.weapon).range, owner_is_player |-> TRUE,
     calls |-> 0]

SpawnProjectile(ps, pl, attacked, id) ==
    IF attacked /\ weapon_stats(pl.weapon).is_projectile
    THEN Append(ps, NewProjectile(pl, id)) ELSE ps

\* projectile.rs, lines 39-41
Fly(p) ==
    [p EXCEPT !.x = @ + AxisStep(p.dx, p.dy, p.speed),
              !.y = @ + AxisStep(p.dy, p.dx, p.speed),
              !.range_remaining = @ - p.speed,
              !.calls = @ + 1]

RangeNeverSpent(p) == FALSE
\* projectile.rs, line 43
RangeSpent(p) == p.range_remaining <= 0

\* projectile.rs, lines 63-66: the first hostile, in scan order, within the
\* hit radius; 0 when there is none
FirstHit(p, rs) ==
    LET near == {j \in 1..Len(rs) :
                    ~((p.x - rs[j].x) * (p.x - rs[j].x) + (p.y - rs[j].y) * (p.y - rs[j].y)
                        > HIT_RANGE * HIT_RANGE)}
    IN  IF near = {} THEN 0 ELSE CHOOSE j \in near : \A k \in near : j <= k

\* projectile.rs, lines 60-91: the live projectiles in order, each one hitting
\* at most one hostile; the hostiles are those gathered before the loop, so a
\* hostile killed by one projectile can still be hit by the next
RECURSIVE Collide(_, _, _, _)
Collide(live, k, rs, acc) ==
    IF k > Len(live) THEN acc
    ELSE LET p == live[k]
             j == IF p.owner_is_player THEN FirstHit(p, rs) ELSE 0
         IN  IF j = 0 THEN Collide(live, k + 1, rs, acc)
             ELSE LET h == acc.health[j] - p.damage
                  IN  Collide(live, k + 1, rs,
                              [health |-> [acc.health EXCEPT ![j] = h],
                               hit |-> Append(acc.hit, p.id),
                               killed |-> IF h <= 0 THEN Append(acc.killed, j) ELSE acc.killed,
                               bounty |-> acc.bounty +
                                          IF h <= 0 THEN bounty_for(rs[j].kind) ELSE 0])

projectile_system(ps, rs) ==
    LET flown == [i \in 1..Len(ps) |-> Fly(ps[i])]
        expired == SelectSeq(flown, RangeSpent)
        live == SelectSeq(flown, LAMBDA p : ~RangeSpent(p))
        acc == Collide(live, 1, rs,
                       [health |-> [j \in 1..Len(rs) |-> rs[j].health],
                        hit |-> <<>>, killed |-> <<>>, bounty |-> 0])
        to_despawn == [i \in 1..Len(expired) |-> expired[i].id] \o acc.hit
        struck == [j \in 1..Len(rs) |-> [rs[j] EXCEPT !.health = acc.health[j]]]
    IN  [projectiles |-> SelectSeq(flown, LAMBDA p :
                            \A i \in 1..Len(to_despawn) : to_despawn[i] /= p.id),
         rogues |-> SelectSeq(struck, LAMBDA r :
                            \A i \in 1..Len(acc.killed) : rs[acc.killed[i]].id /= r.id),
         result |-> [despawned |-> to_despawn,
                     killed_rogues |-> [i \in 1..Len(acc.killed) |-> rs[acc.killed[i]].id],
                     bounty_tokens |-> acc.bounty]]

\* the entity id of the projectile spawned on a tick
ProjectileId(tick) == 100 + tick

\* One tick of the combat pipeline: cooldown decrement, Attack input,
\* combat_system, the spawning of the shot and projectile_system
TickPipeline(attacking, limit) ==
    /\ world_ticks < limit
    /\ LET out == combat_system(DecrementCooldown(player), rogues, agents, balance,
                                god_mode, attacking)
           shot == projectile_system(
                       SpawnProjectile(projectiles, out.player, out.result.player_attacked,
                                       ProjectileId(world_ticks + 1)),
                       out.rogues)
       IN  /\ player' = out.player
           /\ rogues' = shot.rogues
           /\ agents' = out.agents
           /\ balance' = out.balance + shot.result.bounty_tokens
           /\ combat_result' = out.result
           /\ projectiles' = shot.projectiles
           /\ projectile_result' = shot.result
           /\ attack_log' = IF out.result.player_attacked
                            THEN [tick |-> world_ticks + 1, weapon |-> player.weapon]
                            ELSE attack_log
    /\ world_ticks' = world_ticks + 1
    /\ combat_hist' = MetByCombat(player, rogues, god_mode)
    /\ UNCHANGED <<buildG, agent_assignments, fractional, crankG, god_mode,
                   walk_log, walk_steps, purchased, call, economy_rates, economy_ticks,
                   fog, fog_hist, vibeG, loopG>>

TickCombat(attacking) == TickPipeline(attacking, MaxCombatTicks)

\* main.rs EquipWeapon: the cooldown in progress is kept
EquipWeapon(weapon) ==
    /\ player' = [player EXCEPT !.weapon = weapon]
    /\ UNCHANGED <<buildG, agentG, balance, fractional, crankG, rogues, god_mode,
                   combat_result, world_ticks, combat_hist, restG>>

\* main.rs EquipArmor
EquipArmor(armor) ==
    /\ player' = [player EXCEPT !.armor = armor]
    /\ UNCHANGED <<buildG, agentG, balance, fractional, crankG, rogues, god_mode,
                   combat_result, world_ticks, combat_hist, restG>>

\* main.rs DebugToggleGodMode
DebugToggleGodMode ==
    /\ god_mode' = ~god_mode
    /\ UNCHANGED <<buildG, agentG, balance, fractional, crankG, player, rogues,
                   combat_result, world_ticks, combat_hist, restG>>

\* main.rs DebugSetTokens
DebugSetTokens(amount) ==
    /\ balance' = amount
    /\ UNCHANGED <<buildG, agentG, fractional, crankG, worldG, restG>>

(***************************************************************************)
(* Player movement: main.rs, input drain                                   *)
(***************************************************************************)
MaxWalkSteps == 2        \* movement inputs in one behaviour

PLAYER_SPEED == 300

\* main.rs, lines 120-152: one input with a non-zero movement vector
MovePlayer(mx, my) ==
    /\ walk_steps < MaxWalkSteps
    /\ <<mx, my>> /= <<0, 0>>
    /\ LET effective_speed ==
               (PLAYER_SPEED * (100 - armor_stats(player.armor).speed_penalty)) \div 100
           dx == AxisStep(mx, my, effective_speed)
           dy == AxisStep(my, mx, effective_speed)
           future_tx == pixel_to_tile(player.x + dx)
           cur_ty == pixel_to_tile(player.y)
           x_ok == is_walkable(future_tx, cur_ty)
           new_x == IF x_ok THEN player.x + dx ELSE player.x
           cur_tx == pixel_to_tile(new_x)
           future_ty == pixel_to_tile(player.y + dy)
           y_ok == is_walkable(cur_tx, future_ty)
           new_y == IF y_ok THEN player.y + dy ELSE player.y
       IN  /\ player' = [player EXCEPT !.x = new_x, !.y = new_y, !.fdx = mx, !.fdy = my]
           /\ walk_log' = walk_log \o << [wx |-> future_tx, wy |-> cur_ty, walkable |-> x_ok],
                                        [wx |-> cur_tx, wy |-> future_ty, walkable |-> y_ok] >>
    /\ walk_steps' = walk_steps + 1
    /\ UNCHANGED <<buildG, agentG, balance, fractional, crankG, rogues, god_mode,
                   combat_result, world_ticks, combat_hist, purchased, call, sideG, vibeG, loopG>>

WalkArmors == {"ConstitutionalPlate"}

\* The player stands at the spawn point, beside a water tile, beside a cliff
\* top, on high ground beside high water or beside a cliff bottom, each a
\* place reached from the spawn point over walkable ground in
\* whole 3-unit steps.
InitWalk ==
    /\ buildings = InitBuildings
    /\ completed_buildings = {}
    /\ build_log = 0
    /\ completions = [i \in 1..Len(InitBuildings) |-> 0]
    /\ agents = << Sol >>
    /\ agent_assignments = [bid \in BuildingIds |-> <<>>]
    /\ balance = 0
    /\ fractional = 0
    /\ crank = InitCrankState
    /\ player_cranking = FALSE
    /\ crank_log = FALSE
    /\ crank_generated = 0
    /\ crank_gain = 0
    /\ crank_ticks = 0
    /\ \E sp \in WalkSpots : player = [InitPlayer EXCEPT !.x = sp[1], !.y = sp[2]]
    /\ rogues = <<>>
    /\ god_mode = FALSE
    /\ combat_result = EmptyCombatResult
    /\ world_ticks = 0
    /\ combat_hist = EmptyCombatHist
    /\ walk_log = <<>>
    /\ walk_steps = 0
    /\ purchased = {}
    /\ call = NoCalls
    /\ SideIdle

NextWalk ==
    \/ \E mx \in {-1, 0, 1}, my \in {-1, 0, 1} : MovePlayer(mx, my)
    \/ \E armor \in WalkArmors : EquipArmor(armor)
    \/ DebugToggleGodMode

SpecWalk == InitWalk /\ [][NextWalk]_vars

\* Places, relative to the player, that hostiles walk to under rogue_ai_system:
\* inside the 20-unit radius, on it, and out of it next to "sol".
RoguePlaces == << <<0, 1000>>, <<1200, 1600>>, <<0, 7000>> >>
CombatKinds == {"Swarm", "Assassin", "TokenDrain"}
TokenAmounts == {12}
CombatWeapons == {"HardReset"}
CombatArmors == {"FewShotPadding", "ConstitutionalPlate"}

RogueAtPlace(id, kind, p) ==
    NewRogue(id, kind, InitPlayer.x + RoguePlaces[p][1], InitPlayer.y + RoguePlaces[p][2])

\* a Swarm (15 health) that an earlier 8-damage hit has left with 7
WoundedSwarm == [RogueAtPlace(1, "Swarm", 1) EXCEPT !.health = 7]

CombatRogueSets ==
    {<<>>, <<WoundedSwarm>>}
    \cup {<<RogueAtPlace(1, k, p)>> : k \in CombatKinds, p \in 1..Len(RoguePlaces)}
    \cup UNION {{<<RogueAtPlace(1, k1, p1), RogueAtPlace(2, k2, p2)>> :
                    k1 \in CombatKinds, k2 \in CombatKinds, p2 \in (p1 + 1)..Len(RoguePlaces)} :
                 p1 \in 1..Len(RoguePlaces)}

InitCombat ==
    /\ buildings = InitBuildings
    /\ completed_buildings = {}
    /\ build_log = 0
    /\ completions = [i \in 1..Len(InitBuildings) |-> 0]
    /\ agents = << Sol >>
    /\ agent_assignments = [bid \in BuildingIds |-> <<>>]
    /\ balance = 0
    /\ fractional = 0
    /\ crank = InitCrankState
    /\ player_cranking = FALSE
    /\ crank_log = FALSE
    /\ crank_generated = 0
    /\ crank_gain = 0
    /\ crank_ticks = 0
    /\ player = InitPlayer
    /\ rogues \in {rs \in CombatRogueSets : Len(rs) <= MaxRogues}
    /\ god_mode = FALSE
    /\ combat_result = EmptyCombatResult
    /\ world_ticks = 0
    /\ combat_hist = EmptyCombatHist
    /\ walk_log = <<>>
    /\ walk_steps = 0
    /\ purchased = {}
    /\ call = NoCalls
    /\ SideIdle

NextCombat ==
    \/ \E armor \in CombatArmors : EquipArmor(armor)
    \/ \E weapon \in CombatWeapons : EquipWeapon(weapon)
    \/ DebugToggleGodMode
    \/ \E amount \in TokenAmounts : DebugSetTokens(amount)
    \/ \E a \in 1..MaxAgents : RecruitAgent(a)
    \/ \E attacking \in BOOLEAN : TickCombat(attacking)

SpecCombat == InitCombat /\ [][NextCombat]_vars

(***************************************************************************)
(* The crossbow: the combat pipeline over enough ticks for a shot to fly   *)
(* its whole range                                                         *)
(***************************************************************************)
ShotWeapons == {"NullPointer", "ProcessTerminator"}
ShotPlaces == << <<0, 7000>>, <<0, 2500>>, <<1000, 3000>>, <<0, 12500>> >>

RogueAtShot(id, kind, p) ==
    NewRogue(id, kind, InitPlayer.x + ShotPlaces[p][1], InitPlayer.y + ShotPlaces[p][2])

ShotRogueSets ==
    {<<>>,
     <<RogueAtShot(1, "Swarm", 1)>>, <<RogueAtShot(1, "Assassin", 1)>>,
     <<RogueAtShot(1, "Swarm", 2)>>, <<RogueAtShot(1, "Swarm", 3)>>,
     <<RogueAtShot(1, "Swarm", 4)>>,
     <<RogueAtShot(1, "Assassin", 1), RogueAtShot(2, "Swarm", 1)>>}

InitShot ==
    /\ buildings = InitBuildings
    /\ completed_buildings = {}
    /\ build_log = 0
    /\ completions = [i \in 1..Len(InitBuildings) |-> 0]
    /\ agents = << Sol >>
    /\ agent_assignments = [bid \in BuildingIds |-> <<>>]
    /\ balance = 0
    /\ fractional = 0
    /\ crank = InitCrankState
    /\ player_cranking = FALSE
    /\ crank_log = FALSE
    /\ crank_generated = 0
    /\ crank_gain = 0
    /\ crank_ticks = 0
    /\ player = InitPlayer
    /\ rogues \in ShotRogueSets
    /\ god_mode = FALSE
    /\ combat_result = EmptyCombatResult
    /\ world_ticks = 0
    /\ combat_hist = EmptyCombatHist
    /\ walk_log = <<>>
    /\ walk_steps = 0
    /\ purchased = {}
    /\ call = NoCalls
    /\ SideIdle

TickShot(attacking) == TickPipeline(attacking, MaxShotTicks)

NextShot ==
    \/ \E weapon \in ShotWeapons : EquipWeapon(weapon)
    \/ \E attacking \in BOOLEAN : TickShot(attacking)

SpecShot == InitShot /\ [][NextShot]_vars

(***************************************************************************)
(* Hostile behaviour: ai/rogue_ai.rs                                       *)
(***************************************************************************)
MaxWorldTicks == 3       \* ticks of the behaviour and combat pipeline

\* speed_for_type, in hundredths of a unit per tick
speed_for_type(kind) == CASE kind = "Swarm" -> 98
                          [] kind = "Assassin" -> 195
                          [] kind = "Corruptor" -> 52
                          [] kind = "Looper" -> 65
                          [] kind = "TokenDrain" -> 33
                          [] kind = "Mimic" -> 0
                          [] OTHER -> 39

\* the largest r with r * r <= n, for lo * lo <= n < hi * hi
RECURSIVE SqrtBetween(_, _, _)
SqrtBetween(n, lo, hi) ==
    IF hi - lo <= 1 THEN lo
    ELSE Once(LAMBDA mid : IF mid * mid <= n THEN SqrtBetween(n, mid, hi)
                           ELSE SqrtBetween(n, lo, mid),
              (lo + hi) \div 2)

\* sqrt, rounded up
CeilSqrt(n) == Once(LAMBDA f : IF f * f = n THEN f ELSE f + 1, SqrtBetween(n, 0, 46341))

\* f32 division rounded toward zero
TruncDiv(a, b) == IF a >= 0 THEN a \div b ELSE -((-a) \div b)

\* (dx / dist * speed, dy / dist * speed), each component rounded toward zero
VelocityToTarget(dx, dy, d2, speed) == <<dx, dy>>
Velocity(dx, dy, d2, speed) ==
    Once(LAMBDA dist : <<TruncDiv(dx * speed, dist), TruncDiv(dy * speed, dist)>>,
         Once(CeilSqrt, d2))

\* r moved by speed toward (tx, ty): velocity and position updated together
MoveToward(r, tx, ty, speed) ==
    Once(LAMBDA v : [r EXCEPT !.vx = v[1], !.vy = v[2], !.x = r.x + v[1], !.y = r.y + v[2]],
         Velocity(tx - r.x, ty - r.y, distance_sq(tx, ty, r.x, r.y), speed))

NoTarget == <<"none", 0>>
PlayerTarget == <<"player", 0>>
AgentTarget(a) == <<"agent", a>>

\* rogue_ai_system, line 89
LeashNeverExceeded(dist_from_home_sq, leash_radius) == FALSE
LeashExceeded(dist_from_home_sq, leash_radius) ==
    dist_from_home_sq > leash_radius * leash_radius

\* rogue_ai_system, lines 89, 103, 127: which branch a guardian takes
ChaseBeforeLeash(r, pl) ==
    IF distance_sq(pl.x, pl.y, r.x, r.y) < 10000 * 10000 THEN "chase"
    ELSE IF LeashExceeded(distance_sq(r.home_x, r.home_y, r.x, r.y), r.leash_radius)
    THEN "home"
    ELSE "patrol"
GuardianDecision(r, pl) ==
    IF LeashExceeded(distance_sq(r.home_x, r.home_y, r.x, r.y), r.leash_radius) THEN "home"
    ELSE IF distance_sq(pl.x, pl.y, r.x, r.y) < 10000 * 10000 THEN "chase"
    ELSE "patrol"

\* rogue_ai_system, lines 129-165: the patrol branch; rnd is what the random
\* generator returns for the new waypoint (offset from home) and the pause
Patrol(r, rnd) ==
    IF r.patrol_pause > 0
    THEN [r EXCEPT !.vx = 0, !.vy = 0, !.patrol_pause = r.patrol_pause - 1]
    ELSE IF distance_sq(r.patrol_waypoint_x, r.patrol_waypoint_y, r.x, r.y) < 300 * 300
    THEN [r EXCEPT !.patrol_waypoint_x = r.home_x + rnd.wx,
                   !.patrol_waypoint_y = r.home_y + rnd.wy,
                   !.patrol_pause = rnd.pause, !.vx = 0, !.vy = 0]
    ELSE IF speed_for_type(r.kind) > 0
    THEN MoveToward(r, r.patrol_waypoint_x, r.patrol_waypoint_y,
                    (speed_for_type(r.kind) * 4) \div 10)
    ELSE r

\* rogue_ai_system, lines 71-171: one guardian
GuardianStep(r, pl, rnd) ==
    LET speed == speed_for_type(r.kind)
        home_sq == distance_sq(r.home_x, r.home_y, r.x, r.y)
        player_sq == distance_sq(pl.x, pl.y, r.x, r.y)
        decision == GuardianDecision(r, pl)
    IN  CASE decision = "home" ->
               [(IF speed > 0 /\ home_sq > 100 * 100
                 THEN MoveToward(r, r.home_x, r.home_y, speed) ELSE r)
                   EXCEPT !.behavior_state = "Fleeing", !.target = NoTarget]
          [] decision = "chase" ->
               [(IF speed > 0 /\ player_sq > 0
                 THEN MoveToward(r, pl.x, pl.y, speed) ELSE r)
                   EXCEPT !.behavior_state =
                              IF player_sq < 2000 * 2000 THEN "Attacking" ELSE "Approaching",
                          !.target = PlayerTarget]
          [] OTHER ->
               [Patrol(r, rnd) EXCEPT !.behavior_state = "Wandering", !.target = NoTarget]

\* rogue_ai_system, lines 47-57: max_by_key over every entity with Agent,
\* Position and AgentXP, in scan order; of several maximal agents the last
highest_xp_agent(ags) ==
    IF Len(ags) = 0 THEN NoTarget
    ELSE AgentTarget(CHOOSE a \in 1..Len(ags) :
                        /\ \A b \in 1..Len(ags) : ags[b].xp <= ags[a].xp
                        /\ \A b \in (a + 1)..Len(ags) : ags[b].xp < ags[a].xp)

\* rogue_ai_system, lines 189-210: the player first, then each agent in scan
\* order, an agent taking over only when strictly nearer
KeepsNearestOnlyIfNearer(nd, dist_sq) == nd < dist_sq
KeepsNearest(nd, dist_sq) == nd <= dist_sq
RECURSIVE nearest_target(_, _, _, _, _)
nearest_target(r, ags, a, best, best_sq) ==
    IF a > Len(ags) THEN best
    ELSE Once(LAMBDA dist_sq :
                 IF KeepsNearest(best_sq, dist_sq) THEN nearest_target(r, ags, a + 1, best, best_sq)
                 ELSE nearest_target(r, ags, a + 1, AgentTarget(a), dist_sq),
              distance_sq(ags[a].x, ags[a].y, r.x, r.y))

TargetX(t, pl, ags) == IF t[1] = "player" THEN pl.x ELSE ags[t[2]].x
TargetY(t, pl, ags) == IF t[1] = "player" THEN pl.y ELSE ags[t[2]].y

\* rogue_ai_system, lines 174-260: one hostile that is not a guardian
RogueStep(r, pl, ags) ==
    LET speed == speed_for_type(r.kind)
        target == IF r.kind = "Assassin"
                  THEN (IF highest_xp_agent(ags) /= NoTarget THEN highest_xp_agent(ags)
                        ELSE PlayerTarget)
                  ELSE nearest_target(r, ags, 1, PlayerTarget,
                                      distance_sq(pl.x, pl.y, r.x, r.y))
        tx == TargetX(target, pl, ags)
        ty == TargetY(target, pl, ags)
        dist_sq == distance_sq(tx, ty, r.x, r.y)
    IN  [(IF speed > 0 /\ dist_sq > 0 THEN MoveToward(r, tx, ty, speed) ELSE r)
            EXCEPT !.behavior_state = IF dist_sq < 2000 * 2000 THEN "Attacking"
                                      ELSE IF dist_sq < 20000 * 20000 THEN "Approaching"
                                      ELSE "Wandering",
                   !.target = target]

\* rogue_ai_system: every hostile acts on the positions collected at the start
rogue_ai_system(rs, pl, ags, rnd) ==
    [i \in 1..Len(rs) |->
        IF rs[i].guardian THEN GuardianStep(rs[i], pl, rnd) ELSE RogueStep(rs[i], pl, ags)]

\* camp_spawner_system, lines 232-253: a guardian is spawned at its home
NewGuardian(id, kind, px, py) ==
    [NewRogue(id, kind, px, py) EXCEPT !.guardian = TRUE, !.home_x = px, !.home_y = py,
                                       !.leash_radius = 20000,
                                       !.patrol_waypoint_x = px, !.patrol_waypoint_y = py]

\* main.rs, lines 102-107, 525, 531: cooldown decrement, rogue_ai_system, then
\* combat_system on the positions the hostiles moved to
TickWorld(attacking, rnd) ==
    /\ world_ticks < MaxWorldTicks
    /\ LET pl == DecrementCooldown(player)
           moved == rogue_ai_system(rogues, pl, agents, rnd)
           out == combat_system(pl, moved, agents, balance, god_mode, attacking)
       IN  /\ player' = out.player
           /\ rogues' = out.rogues
           /\ agents' = out.agents
           /\ balance' = out.balance
           /\ combat_result' = out.result
           /\ combat_hist' = MetByCombat(pl, moved, god_mode)
    /\ world_ticks' = world_ticks + 1
    /\ UNCHANGED <<buildG, agent_assignments, fractional, crankG, god_mode, restG>>

\* A camp 200 units west of the spawn point: its guardian's home
CampHome == <<20000, 30000>>

\* What the random generator returns in the patrol branch: r = 10 at angle 0
\* with the shortest pause, r = 39.6 at 135 degrees with the longest
PatrolRolls == {[wx |-> 1000, wy |-> 0, pause |-> 30], [wx |-> -2800, wy |-> 2800, pause |-> 79]}

\* Where a guardian spawned at CampHome stands after patrolling and chasing,
\* as <<x, y, waypoint x, waypoint y, patrol_pause>>: just spawned; walking to
\* a waypoint; pausing at one; 100 units from the spawn point; and at the end
\* of a chase, half a unit inside the leash
GuardianStarts ==
    {<<20000, 30000, 20000, 30000, 0>>,
     <<20000, 30000, 21000, 30000, 0>>,
     <<21000, 30000, 21000, 30000, 1>>,
     <<30000, 30000, 21000, 30000, 0>>,
     <<39950, 30000, 21000, 30000, 0>>}
GuardianKinds == {"Swarm", "Assassin"}

GuardianAt(id, kind, g) ==
    [NewGuardian(id, kind, CampHome[1], CampHome[2])
        EXCEPT !.x = g[1], !.y = g[2], !.patrol_waypoint_x = g[3],
               !.patrol_waypoint_y = g[4], !.patrol_pause = g[5]]

\* Hostiles that hunt: an Assassin or a Swarm 20 units south of the place
\* DebugSpawnAgent puts an agent at, or 18 units from both "sol" and the
\* wandering agent, or a Swarm as far from the player as from "sol"
HunterKinds == {"Assassin", "Swarm"}
HunterAt(id, kind) == NewRogue(id, kind, 43000, 35000)

AiRogueSets ==
    {<<GuardianAt(1, k, g)>> : k \in GuardianKinds, g \in GuardianStarts}
    \cup {<<HunterAt(1, k)>> : k \in HunterKinds}
    \cup {<<NewRogue(1, k, 41500, 38000)>> : k \in HunterKinds}
    \cup {<<NewRogue(1, "Swarm", 41000, 34500)>>, <<NewRogue(1, "Mimic", 41500, 38000)>>}
    \cup {<<GuardianAt(1, "Swarm", g), HunterAt(2, k)>> : g \in GuardianStarts, k \in HunterKinds}

\* "sol" after RecruitAgent, and an agent from DebugSpawnAgent that earlier
\* fights have left with 8 health
SolRecruited == [Sol EXCEPT !.state = "Idle", !.recruitable = FALSE]
HurtAgent == [NewAgent("Apprentice", 17, 50, 43000, 33000) EXCEPT !.health = 8]
\* an agent that has wandered to 30 units east of "sol"
Wanderer == NewAgent("Apprentice", 17, 50, 43000, 37000)
AiAgentSets == {<<Sol>>, <<SolRecruited, HurtAgent>>, <<SolRecruited, Wanderer>>}

InitAI ==
    /\ buildings = InitBuildings
    /\ completed_buildings = {}
    /\ build_log = 0
    /\ completions = [i \in 1..Len(InitBuildings) |-> 0]
    /\ agents \in {ags \in AiAgentSets : Len(ags) <= MaxAgents}
    /\ agent_assignments = [bid \in BuildingIds |-> <<>>]
    /\ balance = 0
    /\ fractional = 0
    /\ crank = InitCrankState
    /\ player_cranking = FALSE
    /\ crank_log = FALSE
    /\ crank_generated = 0
    /\ crank_gain = 0
    /\ crank_ticks = 0
    /\ player = InitPlayer
    /\ rogues \in {rs \in AiRogueSets : Len(rs) <= MaxRogues}
    /\ god_mode = FALSE
    /\ combat_result = EmptyCombatResult
    /\ world_ticks = 0
    /\ combat_hist = EmptyCombatHist
    /\ walk_log = <<>>
    /\ walk_steps = 0
    /\ purchased = {}
    /\ call = NoCalls
    /\ SideIdle

NextAI ==
    \/ \E attacking \in BOOLEAN, rnd \in PatrolRolls : TickWorld(attacking, rnd)
    \/ \E mx \in {-1, 1} : MovePlayer(mx, 0)

SpecAI == InitAI /\ [][NextAI]_vars

(***************************************************************************)
(* The economy aggregator (ecs/systems/economy.rs)                         *)
(***************************************************************************)
MaxEconomyTicks == 3

\* economy.rs, lines 22-40: the wage of one agent, in 1/10000 token
base_wage(tier) == CASE tier = "Apprentice" -> 500
                     [] tier = "Journeyman" -> 1000
                     [] tier = "Artisan" -> 2000
                     [] OTHER -> 4000
wage(ag) ==
    IF ag.state = "Unresponsive" \/ ag.state = "Dormant" THEN 0
    ELSE IF ag.state = "Idle" THEN base_wage(ag.tier) \div 2
    ELSE base_wage(ag.tier)

\* economy.rs, lines 55-67: the income of one building, in 1/10000 token
passive_income(b) ==
    IF b.current < b.total THEN 0
    ELSE CASE b.kind = "ComputeFarm" -> 5000
           [] b.kind = "TodoApp" -> 200
           [] b.kind = "WeatherDashboard" -> 1000
           [] b.kind = "EcommerceStore" -> 3000
           [] b.kind = "AiImageGenerator" -> 2500
           [] b.kind = "Blockchain" -> 10000
           [] OTHER -> 0

net_floored(net) == net \div TokenOne
\* economy.rs, line 86: net as i64
net_as_i64(net) == TruncDiv(net, TokenOne)

economy_system(bs, ags, bal) ==
    LET total_wages == SumSeq([a \in 1..Len(ags) |-> wage(ags[a])])
        total_income == SumSeq([i \in 1..Len(bs) |-> passive_income(bs[i])])
    IN  [income_per_tick |-> total_income,
         expenditure_per_tick |-> total_wages,
         balance |-> bal + net_as_i64(total_income - total_wages)]

\* main.rs, line 606: the economy step of a tick
TickEconomy ==
    /\ economy_ticks < MaxEconomyTicks
    /\ LET out == economy_system(buildings, agents, balance)
       IN  /\ balance' = out.balance
           /\ economy_rates' = [income_per_tick |-> out.income_per_tick,
                                expenditure_per_tick |-> out.expenditure_per_tick]
    /\ economy_ticks' = economy_ticks + 1
    /\ UNCHANGED <<buildG, agentG, fractional, crankG, worldG, walk_log, walk_steps,
                   purchased, call, projectiles, projectile_result, attack_log,
                   fog, fog_hist, vibeG, loopG>>

Built(kind) == [kind |-> kind, current |-> 10, total |-> 10]
Worker(tier, state) == [NewAgent(tier, 10, 50, 40000, 39000) EXCEPT !.state = state]

\* worlds whose net income per tick is 0, a fraction of a token, more than a
\* token, and less than minus a token
EconomyBuildingSets ==
    {InitBuildings,
     InitBuildings \o <<Built("Blockchain")>>,
     InitBuildings \o <<[Built("Blockchain") EXCEPT !.current = 4], Built("TodoApp")>>,
     InitBuildings \o <<Built("ComputeFarm"), Built("ComputeFarm"), Built("EcommerceStore")>>,
     InitBuildings \o <<Built("ComputeFarm"), Built("EcommerceStore"),
                        Built("WeatherDashboard")>>}
EconomyAgentSets ==
    {<<Sol>>,
     <<Worker("Apprentice", "Idle")>>,
     <<Worker("Architect", "Building"), Worker("Architect", "Building"),
       Worker("Architect", "Exploring")>>,
     <<Worker("Architect", "Building"), Worker("Architect", "Unresponsive")>>,
     <<Worker("Journeyman", "Idle"), Worker("Artisan", "Building")>>}
EconomyBalances == {0, 5}
EconomyFractionals == {0, 9000}

InitEconomy ==
    /\ buildings \in EconomyBuildingSets
    /\ completed_buildings = {}
    /\ build_log = 0
    /\ completions = [i \in 1..Len(buildings) |-> 0]
    /\ agents \in EconomyAgentSets
    /\ agent_assignments = [bid \in BuildingIds |-> <<>>]
    /\ balance \in EconomyBalances
    /\ fractional \in EconomyFractionals
    /\ crank = InitCrankState
    /\ player_cranking = FALSE
    /\ crank_log = FALSE
    /\ crank_generated = 0
    /\ crank_gain = 0
    /\ crank_ticks = 0
    /\ player = InitPlayer
    /\ rogues = <<>>
    /\ god_mode = FALSE
    /\ combat_result = EmptyCombatResult
    /\ world_ticks = 0
    /\ combat_hist = EmptyCombatHist
    /\ walk_log = <<>>
    /\ walk_steps = 0
    /\ purchased = {}
    /\ call = NoCalls
    /\ SideIdle

NextEconomy == TickEconomy

SpecEconomy == InitEconomy /\ [][NextEconomy]_vars

(***************************************************************************)
(* Fog of war (game/fog.rs); world coordinates in whole units              *)
(***************************************************************************)
TILE_SIZE == 16
CHUNK_SIZE == 32
MaxFogCalls == 4

\* fog.rs, lines 37-58: the tiles of the bounding box of a light (lx, ly,
\* radius), row by row, whose centre is within the radius
LightTiles(l) ==
    LET tile_min_x == (l[1] - l[3]) \div TILE_SIZE
        tile_min_y == (l[2] - l[3]) \div TILE_SIZE
        tile_max_x == (l[1] + l[3]) \div TILE_SIZE
        tile_max_y == (l[2] + l[3]) \div TILE_SIZE
        w == tile_max_x - tile_min_x + 1
        h == tile_max_y - tile_min_y + 1
        box == [k \in 1..(w * h) |->
                   <<tile_min_x + ((k - 1) % w), tile_min_y + ((k - 1) \div w)>>]
        within(t) ==
            LET dx == t[1] * TILE_SIZE + TILE_SIZE \div 2 - l[1]
                dy == t[2] * TILE_SIZE + TILE_SIZE \div 2 - l[2]
            IN  dx * dx + dy * dy <= l[3] * l[3]
    IN  SelectSeq(box, within)

\* fog.rs, lines 60-63
ChunkOf(t) == <<t[1] \div CHUNK_SIZE, t[2] \div CHUNK_SIZE>>
LitTile(t) == <<t[1] \div CHUNK_SIZE, t[2] \div CHUNK_SIZE, t[1] % CHUNK_SIZE, t[2] % CHUNK_SIZE>>

RECURSIVE AllLightTiles(_, _)
AllLightTiles(lights, k) ==
    IF k > Len(lights) THEN <<>>
    ELSE LightTiles(lights[k]) \o AllLightTiles(lights, k + 1)

lit_tiles_kept(lit) == lit
\* fog.rs, line 31
lit_tiles_cleared(lit) == {}

\* fog.rs, lines 65-70: the lit tiles in the order they are met
RECURSIVE LightUp(_, _, _)
LightUp(tiles, k, acc) ==
    IF k > Len(tiles) THEN acc
    ELSE LightUp(tiles, k + 1,
                 [lit_tiles |-> acc.lit_tiles \cup {LitTile(tiles[k])},
                  revealed |-> acc.revealed \cup {ChunkOf(tiles[k])},
                  newly_revealed |-> IF ChunkOf(tiles[k]) \in acc.revealed
                                     THEN acc.newly_revealed
                                     ELSE Append(acc.newly_revealed, ChunkOf(tiles[k]))])

update_light(f, light_sources) ==
    LightUp(AllLightTiles(light_sources, 1), 1,
            [lit_tiles |-> lit_tiles_cleared(f.lit_tiles), revealed |-> f.revealed,
             newly_revealed |-> <<>>])

UpdateLight(light_sources) ==
    /\ fog_hist.calls < MaxFogCalls
    /\ LET out == update_light(fog, light_sources)
       IN  /\ fog' = [revealed |-> out.revealed, lit_tiles |-> out.lit_tiles]
           /\ fog_hist' = [calls |-> fog_hist.calls + 1, lights |-> light_sources,
                           newly_revealed |-> out.newly_revealed,
                           returned |-> fog_hist.returned \o out.newly_revealed]
    /\ UNCHANGED <<buildG, agentG, balance, fractional, crankG, worldG, walk_log, walk_steps,
                   purchased, call, projectiles, projectile_result, attack_log,
                   economy_rates, economy_ticks, vibeG, loopG>>

\* light sources (x, y, radius): none, one inside a chunk corner, one across
\* the border of two chunks, both of them, and one west of the origin
FogLights ==
    {<<>>, << <<8, 8, 20>> >>, << <<504, 8, 20>> >>,
     << <<8, 8, 20>>, <<504, 8, 20>> >>, << <<-300, 40, 40>> >>}

InitFog == InitWorld

NextFog == \E light_sources \in FogLights : UpdateLight(light_sources)

SpecFog == InitFog /\ [][NextFog]_vars

(***************************************************************************)
(* The tick loop, the network read task and the dev server process        *)
(* (main.rs, lines 95-118, 363-393, 963; network/server.rs, lines 74-102;  *)
(* project/mod.rs, lines 169-223; project/process.rs)                      *)
(***************************************************************************)
MaxInputs == 3
MaxLoopTicks == 2
READY_POLLS == 60
InputActions == {"Move", "StartDevServer", "StopDevServer"}

send_to_front(q, input) == <<input>> \o q
\* server.rs, line 84: input_tx.send on the unbounded channel
send(q, input) == Append(q, input)

\* The read task decodes a PlayerInput and sends it; it runs beside the tick
\* loop, wherever that stands
ReadTask(action) ==
    /\ net_hist.decoded < MaxInputs
    /\ input_rx' = send(input_rx, [id |-> net_hist.decoded + 1, action |-> action])
    /\ net_hist' = [net_hist EXCEPT !.decoded = @ + 1]
    /\ UNCHANGED <<buildG, agentG, balance, fractional, crankG, worldG, walk_log, walk_steps,
                   purchased, call, sideG, vibeG, game_state, loop, dev>>

\* main.rs, lines 96-97: ticker.tick().await; game_state.tick += 1
TickerFires ==
    /\ loop.pc = "tick"
    /\ loop.tick < MaxLoopTicks
    /\ loop' = [loop EXCEPT !.pc = "drain", !.tick = @ + 1]
    /\ UNCHANGED <<buildG, agentG, balance, fractional, crankG, worldG, walk_log, walk_steps,
                   purchased, call, sideG, vibeG, game_state, input_rx, dev, net_hist>>

\* main.rs, line 114: try_recv returned an input, which is handled at once.
\* StartDevServer (mod.rs, lines 182-197) spawns the process and enters the
\* readiness loop; StopDevServer (mod.rs, lines 211-212) kills the process
\* and awaits its exit; both are refused without a process or with one.
DrainInput ==
    /\ loop.pc = "drain"
    /\ input_rx /= <<>>
    /\ input_rx' = Tail(input_rx)
    /\ net_hist' = [net_hist EXCEPT
                       !.handled = Append(@, [id |-> Head(input_rx).id, tick |-> loop.tick])]
    /\ CASE Head(input_rx).action = "StartDevServer" /\ ~dev.running ->
               /\ dev' = [dev EXCEPT !.process = "starting"]
               /\ loop' = [loop EXCEPT !.pc = "await_ready", !.polls = 0]
         [] Head(input_rx).action = "StopDevServer" /\ dev.running ->
               /\ dev' = [running |-> FALSE, process |-> "killed"]
               /\ loop' = [loop EXCEPT !.pc = "await_exit"]
         [] OTHER -> UNCHANGED <<dev, loop>>
    /\ UNCHANGED <<buildG, agentG, balance, fractional, crankG, worldG, walk_log, walk_steps,
                   purchased, call, sideG, vibeG, game_state>>

\* process.rs, lines 62-68: sleep 250 ms, then try to connect; the loop ends
\* on the first connection or after READY_POLLS tries, and start_dev_server
\* returns Ok either way (lines 70-76; mod.rs, lines 200-203)
PollReady ==
    /\ loop.pc = "await_ready"
    /\ IF dev.process = "listening" \/ loop.polls + 1 = READY_POLLS
       THEN /\ loop' = [loop EXCEPT !.pc = "drain", !.polls = 0]
            /\ dev' = [dev EXCEPT !.running = TRUE]
       ELSE /\ loop' = [loop EXCEPT !.polls = @ + 1]
            /\ dev' = dev
    /\ UNCHANGED <<buildG, agentG, balance, fractional, crankG, worldG, walk_log, walk_steps,
                   purchased, call, sideG, vibeG, game_state, input_rx, net_hist>>

\* process.rs, line 17: child.kill().await returns once the process is gone
AwaitExit ==
    /\ loop.pc = "await_exit"
    /\ dev.process = "none"
    /\ loop' = [loop EXCEPT !.pc = "drain"]
    /\ UNCHANGED <<buildG, agentG, balance, fractional, crankG, worldG, walk_log, walk_steps,
                   purchased, call, sideG, vibeG, game_state, input_rx, dev, net_hist>>

\* The dev server process, outside the program: it may start to listen, and
\* a killed process ends
DevServerListens ==
    /\ dev.process = "starting"
    /\ dev' = [dev EXCEPT !.process = "listening"]
    /\ UNCHANGED <<buildG, agentG, balance, fractional, crankG, worldG, walk_log, walk_steps,
                   purchased, call, sideG, vibeG, game_state, loop, input_rx, net_hist>>

DevServerExits ==
    /\ dev.process = "killed"
    /\ dev' = [dev EXCEPT !.process = "none"]
    /\ UNCHANGED <<buildG, agentG, balance, fractional, crankG, worldG, walk_log, walk_steps,
                   purchased, call, sideG, vibeG, game_state, loop, input_rx, net_hist>>

\* main.rs, line 114: try_recv found the channel empty, so the systems of
\* the tick run
RunSystems ==
    /\ loop.pc = "drain"
    /\ input_rx = <<>>
    /\ loop' = [loop EXCEPT !.pc = "systems"]
    /\ net_hist' = [net_hist EXCEPT !.systems = Append(@, loop.tick)]
    /\ UNCHANGED <<buildG, agentG, balance, fractional, crankG, worldG, walk_log, walk_steps,
                   purchased, call, sideG, vibeG, game_state, input_rx, dev>>

\* main.rs, lines 900-963: the GameStateUpdate of the tick is sent
SendState ==
    /\ loop.pc = "systems"
    /\ net_hist' = [net_hist EXCEPT !.updates = Append(@, loop.tick)]
    /\ loop' = [loop EXCEPT !.pc = "tick"]
    /\ UNCHANGED <<buildG, agentG, balance, fractional, crankG, worldG, walk_log, walk_steps,
                   purchased, call, sideG, vibeG, game_state, input_rx, dev>>

InitLoop == InitWorld

LoopNext ==
    \/ TickerFires
    \/ DrainInput
    \/ PollReady
    \/ AwaitExit
    \/ RunSystems
    \/ SendState

NextLoop ==
    \/ \E action \in InputActions : ReadTask(action)
    \/ DevServerListens
    \/ DevServerExits
    \/ LoopNext

SpecLoop == InitLoop /\ [][NextLoop]_vars

(***************************************************************************)
(* Upgrades and the calls that can be refused                              *)
(***************************************************************************)
\* all_upgrades: cost and prerequisite ("None" when there is none)
upgrade_cost(id) == CASE id = "ExpandedContextWindow" -> 100
                      [] id = "VerboseLogging" -> 75
                      [] id = "TokenCompression" -> 120
                      [] id = "GitAccess" -> 200
                      [] id = "WebSearch" -> 180
                      [] id = "FileSystemAccess" -> 250
                      [] id = "CrankAssignment" -> 150
                      [] id = "MultiAgentCoordination" -> 400
                      [] id = "PersistentMemory" -> 350
                      [] id = "AutonomousScouting" -> 300
                      [] id = "AgentSpawning" -> 600
                      [] id = "DistributedCompute" -> 500
                      [] OTHER -> 800
upgrade_prerequisite(id) == CASE id = "GitAccess" -> "ExpandedContextWindow"
                              [] id = "WebSearch" -> "VerboseLogging"
                              [] id \in {"FileSystemAccess", "CrankAssignment"} -> "TokenCompression"
                              [] id = "MultiAgentCoordination" -> "GitAccess"
                              [] id = "PersistentMemory" -> "WebSearch"
                              [] id = "AutonomousScouting" -> "FileSystemAccess"
                              [] id = "AgentSpawning" -> "MultiAgentCoordination"
                              [] id = "DistributedCompute" -> "PersistentMemory"
                              [] id = "AlignmentProtocols" -> "AutonomousScouting"
                              [] OTHER -> "None"

\* UpgradeState::purchase: what it returns
purchase_forgetting_purchased(purch, bal, id) ==
    IF bal < upgrade_cost(id) THEN "not enough tokens"
    ELSE IF upgrade_prerequisite(id) /= "None" /\ upgrade_prerequisite(id) \notin purch
    THEN "prerequisite not met"
    ELSE "ok"
purchase(purch, bal, id) ==
    IF id \in purch THEN "already purchased"
    ELSE IF bal < upgrade_cost(id) THEN "not enough tokens"
    ELSE IF upgrade_prerequisite(id) /= "None" /\ upgrade_prerequisite(id) \notin purch
    THEN "prerequisite not met"
    ELSE "ok"

\* UpgradeState::purchase: what it does
Purchase(id) ==
    /\ call.n < MaxCalls
    /\ IF purchase(purchased, balance, id) = "ok"
       THEN /\ balance' = balance - upgrade_cost(id)
            /\ purchased' = purchased \cup {id}
       ELSE UNCHANGED <<balance, purchased>>
    /\ call' = Returned("purchase", id, purchase(purchased, balance, id))
    /\ UNCHANGED <<buildG, agentG, fractional, crankG, worldG, walk_log, walk_steps, sideG, vibeG, loopG>>

ShopUpgrades == {"VerboseLogging", "ExpandedContextWindow", "GitAccess"}
ShopBalances == {0, 100, 300}
ShopKinds == PlaceableKinds \cup {"ComputeFarm", "CraftingTable"}
\* "sol" alone, or "sol" recruited beside an agent that combat has killed
ShopAgentSets == {<<Sol>>, <<SolRecruited, [HurtAgent EXCEPT !.health = 0, !.state = "Unresponsive"]>>}

(***************************************************************************)
(* Session management (main.rs, lines 619-705; vibe/manager.rs)            *)
(***************************************************************************)
MaxVibeTicks == 3

\* main.rs, lines 622-631
NeedsSession(v, ags, a) ==
    ags[a].state = "Building" /\ a \notin v.sessions /\ a \notin v.failed_spawns

\* main.rs, lines 634-648: the agent is assigned to a building whose working
\* directory exists (found: the base directory is set and the directory is there)
FoundBuilding(assignments, a, found) ==
    /\ found
    /\ \E bid \in DOMAIN assignments :
           \E i \in 1..Len(assignments[bid]) : assignments[bid][i] = a

\* vibe/manager.rs start_session: refused for an agent that has a session,
\* and failing when the key is missing or the process cannot be spawned
start_session_ok(v, a, spawned) == a \notin v.sessions /\ spawned

RECURSIVE StartSessions(_, _, _, _, _, _)
StartSessions(v, ags, assignments, a, spawned, found) ==
    IF a > Len(ags) THEN v
    ELSE IF NeedsSession(v, ags, a) /\ FoundBuilding(assignments, a, found)
    THEN StartSessions(IF start_session_ok(v, a, spawned)
                       THEN [v EXCEPT !.sessions = @ \cup {a}]
                       ELSE mark_failed(v, a),
                       ags, assignments, a + 1, spawned, found)
    ELSE StartSessions(v, ags, assignments, a + 1, spawned, found)

\* One tick of session management: sessions are started for the agents that
\* need one, the sessions whose process has exited are dropped (poll_exits),
\* and those of Erroring agents are killed
TickVibe(spawned, found, exited) ==
    /\ vibe_hist.ticks < MaxVibeTicks
    /\ LET attempted == {a \in 1..Len(agents) :
                            /\ NeedsSession(vibe, agents, a)
                            /\ FoundBuilding(agent_assignments, a, found)}
           v1 == StartSessions(vibe, agents, agent_assignments, 1, spawned, found)
           v2 == IF exited THEN [v1 EXCEPT !.sessions = {}] ELSE v1
           v3 == [v2 EXCEPT !.sessions = {a \in @ : agents[a].state /= "Erroring"}]
       IN  /\ vibe' = v3
           /\ vibe_hist' = [ticks |-> vibe_hist.ticks + 1,
                            attempted |-> attempted,
                            started |-> attempted \cap v1.sessions,
                            attempts |-> vibe_hist.attempts + Cardinality(attempted)]
    /\ UNCHANGED <<buildG, agentG, balance, fractional, crankG, worldG, walk_log, walk_steps,
                   purchased, call, sideG, loopG>>

InitShop ==
    /\ buildings = InitBuildings
    /\ completed_buildings = {}
    /\ build_log = 0
    /\ completions = [i \in 1..Len(InitBuildings) |-> 0]
    /\ agents \in {ags \in ShopAgentSets : Len(ags) <= MaxAgents}
    /\ agent_assignments = [bid \in BuildingIds |-> <<>>]
    /\ balance \in ShopBalances
    /\ fractional = 0
    /\ crank = InitCrankState
    /\ player_cranking = FALSE
    /\ crank_log = FALSE
    /\ crank_generated = 0
    /\ crank_gain = 0
    /\ crank_ticks = 0
    /\ player = InitPlayer
    /\ rogues = <<>>
    /\ god_mode = FALSE
    /\ combat_result = EmptyCombatResult
    /\ world_ticks = 0
    /\ combat_hist = EmptyCombatHist
    /\ walk_log = <<>>
    /\ walk_steps = 0
    /\ purchased = {}
    /\ call = [NoCalls EXCEPT !.op = "none"]
    /\ SideIdle

NextShop ==
    \/ \E id \in ShopUpgrades : Purchase(id)
    \/ \E kind \in ShopKinds : PlaceBuilding(kind)
    \/ \E tier \in {"Apprentice"}, speed \in AgentSpeeds : DebugSpawnAgent(tier, speed)
    \/ \E a \in 1..MaxAgents, bid \in BuildingIds : AssignAgentToProject(a, bid)
    \/ \E a \in 1..MaxAgents, bid \in BuildingIds : UnassignAgentFromProject(a, bid)
    \/ \E spawned \in BOOLEAN, found \in BOOLEAN, exited \in BOOLEAN :
          TickVibe(spawned, found, exited)

SpecShop == InitShop /\ [][NextShop]_vars

(***************************************************************************)
(* ProjectManager::assign_agent and unassign_agent called directly         *)
(* (project/mod.rs, lines 288-313), with more agent ids than one list      *)
(* takes and two building ids                                              *)
(***************************************************************************)
MaxManagerCalls == 5
ManagerAgentIds == 1..4
ManagerBuildingIds == {"todo_app", "calculator"}

\* mod.rs, lines 290-306
AssignAgentCall(bid, id) ==
    /\ call.n < MaxManagerCalls
    /\ agent_assignments' =
          IF assign_agent_ok(agent_assignments[bid], id)
          THEN [agent_assignments EXCEPT ![bid] = Append(@, id)]
          ELSE agent_assignments
    /\ call' = Returned("assign_agent", <<bid, id>>, assign_agent_ok(agent_assignments[bid], id))
    /\ UNCHANGED <<buildG, agents, balance, fractional, crankG, worldG, walk_log, walk_steps,
                   purchased, sideG, vibeG, loopG>>

\* mod.rs, lines 309-313
UnassignAgentCall(bid, id) ==
    /\ call.n < MaxManagerCalls
    /\ agent_assignments' = [agent_assignments EXCEPT ![bid] = unassign_agent(@, id)]
    /\ call' = Returned("unassign_agent", <<bid, id>>, TRUE)
    /\ UNCHANGED <<buildG, agents, balance, fractional, crankG, worldG, walk_log, walk_steps,
                   purchased, sideG, vibeG, loopG>>

InitManager ==
    /\ buildings = InitBuildings
    /\ completed_buildings = {}
    /\ build_log = 0
    /\ completions = [i \in 1..Len(InitBuildings) |-> 0]
    /\ agents = << Sol >>
    /\ agent_assignments = [bid \in ManagerBuildingIds |-> <<>>]
    /\ balance = 0
    /\ fractional = 0
    /\ crank = InitCrankState
    /\ player_cranking = FALSE
    /\ crank_log = FALSE
    /\ crank_generated = 0
    /\ crank_gain = 0
    /\ crank_ticks = 0
    /\ player = InitPlayer
    /\ rogues = <<>>
    /\ god_mode = FALSE
    /\ combat_result = EmptyCombatResult
    /\ world_ticks = 0
    /\ combat_hist = EmptyCombatHist
    /\ walk_log = <<>>
    /\ walk_steps = 0
    /\ purchased = {}
    /\ call = [NoCalls EXCEPT !.op = "none"]
    /\ SideIdle

NextManager ==
    \/ \E bid \in ManagerBuildingIds, id \in ManagerAgentIds : AssignAgentCall(bid, id)
    \/ \E bid \in ManagerBuildingIds, id \in ManagerAgentIds : UnassignAgentCall(bid, id)

SpecManager == InitManager /\ [][NextManager]_vars

(***************************************************************************)
(* Agents at work: combat_system, economy_system and agent_tick_system     *)
(* (agent_tick.rs) in the order of a tick, with the recruit, assign and    *)
(* unassign handlers and two building ids.  No attack is made, every       *)
(* building is complete and the wheel stands still, so projectile_system,  *)
(* building_system and crank_system between them change nothing.           *)
(***************************************************************************)
MaxUpkeepTicks == 7

\* generate_vibe_config (agents.rs, lines 49-92) and "sol" (world.rs, 76-85)
max_turns(tier) == CASE tier = "Apprentice" -> 5
                     [] tier = "Journeyman" -> 15
                     [] tier = "Artisan" -> 30
                     [] OTHER -> 50
token_burn_rate(tier) == CASE tier = "Apprentice" -> 3
                           [] tier = "Journeyman" -> 2
                           [] OTHER -> 1

Working(ag) == ag.state \in {"Building", "Exploring", "Defending"}

\* agent_tick.rs, lines 41-44: the tokens the Erroring agents burn in a tick
token_drain(ags) ==
    SumSeq([a \in 1..Len(ags) |->
               IF ags[a].state = "Erroring" THEN token_burn_rate(ags[a].tier) ELSE 0])

\* agent_tick.rs, line 60
burn(bal, drain) == bal - drain

\* agent_tick_system: unlucky are the agents whose random roll falls under
\* their error chance this tick
agent_tick_system(ags, bal, unlucky) ==
    [agents |-> [a \in 1..Len(ags) |->
                    IF Working(ags[a])
                    THEN LET turns == ags[a].turns_used + 1
                         IN  [ags[a] EXCEPT
                                 !.turns_used = turns,
                                 !.state = IF turns >= max_turns(ags[a].tier) \/ a \in unlucky
                                           THEN "Erroring" ELSE @]
                    ELSE ags[a]],
     balance |-> burn(bal, token_drain(ags))]

\* main.rs, lines 531-615
TickUpkeep(unlucky) ==
    /\ economy_ticks < MaxUpkeepTicks
    /\ LET fought == combat_system(DecrementCooldown(player), rogues, agents, balance,
                                   god_mode, FALSE)
           eco == economy_system(buildings, fought.agents, fought.balance)
           out == agent_tick_system(fought.agents, eco.balance, unlucky)
       IN  /\ player' = fought.player
           /\ rogues' = fought.rogues
           /\ combat_result' = fought.result
           /\ agents' = out.agents
           /\ balance' = out.balance
           /\ economy_rates' = [income_per_tick |-> eco.income_per_tick,
                                expenditure_per_tick |-> eco.expenditure_per_tick]
    /\ combat_hist' = MetByCombat(player, rogues, god_mode)
    /\ economy_ticks' = economy_ticks + 1
    /\ UNCHANGED <<buildG, agent_assignments, fractional, crankG, god_mode, world_ticks,
                   walk_log, walk_steps, purchased, call, projectiles, projectile_result,
                   attack_log, fog, fog_hist, vibeG, loopG>>

\* no hostile, or a TokenDrain 10 units from the player
WorkRogueSets == {<<>>, <<RogueAtPlace(1, "TokenDrain", 1)>>}

\* tokens cranked before the behaviour starts
WorkBalances == {10, 13}

InitWork ==
    /\ buildings = InitBuildings
    /\ completed_buildings = {}
    /\ build_log = 0
    /\ completions = [i \in 1..Len(InitBuildings) |-> 0]
    /\ agents = << Sol >>
    /\ agent_assignments = [bid \in ManagerBuildingIds |-> <<>>]
    /\ balance \in WorkBalances
    /\ fractional = 0
    /\ crank = InitCrankState
    /\ player_cranking = FALSE
    /\ crank_log = FALSE
    /\ crank_generated = 0
    /\ crank_gain = 0
    /\ crank_ticks = 0
    /\ player = InitPlayer
    /\ rogues \in WorkRogueSets
    /\ god_mode = FALSE
    /\ combat_result = EmptyCombatResult
    /\ world_ticks = 0
    /\ combat_hist = EmptyCombatHist
    /\ walk_log = <<>>
    /\ walk_steps = 0
    /\ purchased = {}
    /\ call = NoCalls
    /\ SideIdle

NextWork ==
    \/ \E a \in 1..MaxAgents : RecruitAgent(a)
    \/ \E a \in 1..MaxAgents, bid \in ManagerBuildingIds : AssignAgentToProject(a, bid)
    \/ \E a \in 1..MaxAgents, bid \in ManagerBuildingIds : UnassignAgentFromProject(a, bid)
    \/ \E unlucky \in SUBSET (1..MaxAgents) : TickUpkeep(unlucky)

SpecWork == InitWork /\ [][NextWork]_vars

(***************************************************************************)
(* A whole tick of the player: the drain of the buffered inputs with their *)
(* movement and Attack (main.rs, lines 102-157), combat_system, the shot,  *)
(* projectile_system and the death and respawn bookkeeping (531-582).      *)
(* world_ticks is game_state.tick; the hostiles stand still.               *)
(***************************************************************************)
MaxRunTicks == 18
RESPAWN_TICKS == 200

\* main.rs, lines 120-152: the movement of one input
move_player(pl, mx, my) ==
    IF <<mx, my>> = <<0, 0>> THEN pl
    ELSE LET effective_speed ==
                 (PLAYER_SPEED * (100 - armor_stats(pl.armor).speed_penalty)) \div 100
             dx == AxisStep(mx, my, effective_speed)
             dy == AxisStep(my, mx, effective_speed)
             x_ok == is_walkable(pixel_to_tile(pl.x + dx), pixel_to_tile(pl.y))
             new_x == IF x_ok THEN pl.x + dx ELSE pl.x
             y_ok == is_walkable(pixel_to_tile(new_x), pixel_to_tile(pl.y + dy))
             new_y == IF y_ok THEN pl.y + dy ELSE pl.y
         IN  [pl EXCEPT !.x = new_x, !.y = new_y, !.fdx = mx, !.fdy = my]

\* main.rs, lines 114-118: the inputs the drain acts on; while the player is
\* dead every input is taken from the channel and skipped
handled_inputs(dead, inputs) == IF dead THEN <<>> ELSE inputs

\* main.rs, lines 114-152: the player after the movement of the first input only
\* main.rs, lines 114-152: the player after the movement of every input from i on
RECURSIVE drain_moves(_, _, _)
drain_moves(pl, inputs, i) ==
    IF i > Len(inputs) THEN pl
    ELSE drain_moves(move_player(pl, inputs[i].movement[1], inputs[i].movement[2]),
                     inputs, i + 1)

\* main.rs, lines 559-582: the death check and the respawn of tick `tick` for
\* a player with health hp; the result is <<player_dead, death_tick, respawned>>
respawn_due_at_once(tick, death_tick) == TRUE
respawn_due(tick, death_tick) == tick - death_tick >= RESPAWN_TICKS
death_bookkeeping(gs, hp, tick) ==
    LET dies == ~gs.player_dead /\ hp <= 0
        dead == gs.player_dead \/ dies
        death_tick == IF dies THEN <<tick>> ELSE gs.death_tick
        respawns == dead /\ death_tick /= <<>> /\ respawn_due(tick, death_tick[1])
    IN  [player_dead |-> dead /\ ~respawns,
         death_tick |-> IF respawns THEN <<>> ELSE death_tick,
         respawned |-> respawns]

TickRun(inputs, limit) ==
    /\ world_ticks < limit
    /\ \E tick \in {world_ticks + 1} :
       \E handled \in {handled_inputs(game_state.player_dead, inputs)} :
       \E moved \in {drain_moves(DecrementCooldown(player), handled, 1)} :
       \E attacking \in {\E i \in 1..Len(handled) : handled[i].action = "Attack"} :
       \E out \in {combat_system(moved, rogues, agents, balance, god_mode, attacking)} :
       \E fired \in {SpawnProjectile(projectiles, out.player, out.result.player_attacked,
                                     ProjectileId(tick))} :
       \E shot \in {projectile_system(fired, out.rogues)} :
       \E fate \in {death_bookkeeping(game_state, out.player.health, tick)} :
           /\ player' = IF fate.respawned
                        THEN [out.player EXCEPT !.x = 40000, !.y = 30000, !.health = out.player.max]
                        ELSE out.player
           /\ game_state' = [game_state EXCEPT !.player_dead = fate.player_dead,
                                               !.death_tick = fate.death_tick]
           /\ rogues' = shot.rogues
           /\ agents' = out.agents
           /\ balance' = out.balance + shot.result.bounty_tokens
           /\ combat_result' = out.result
           /\ projectiles' = shot.projectiles
           /\ projectile_result' = shot.result
           /\ attack_log' = IF out.result.player_attacked
                            THEN [tick |-> tick, weapon |-> player.weapon]
                            ELSE attack_log
           /\ combat_hist' = MetByCombat(moved, rogues, god_mode)
    /\ world_ticks' = world_ticks + 1
    /\ UNCHANGED <<buildG, agent_assignments, fractional, crankG, god_mode,
                   walk_log, walk_steps, purchased, call, economy_rates, economy_ticks,
                   fog, fog_hist, vibeG, loop, input_rx, dev, net_hist>>

\* PlayerInputs: a step forward, a step forward with an Attack
Fwd == [movement |-> <<0, 1>>, action |-> "None"]
FwdAttack == [movement |-> <<0, 1>>, action |-> "Attack"]
RunInputs == {<<>>, <<Fwd>>, <<Fwd, FwdAttack>>}
\* a Swarm 105 or 112 units ahead of the player
RunRogueSets == {<<NewRogue(1, "Swarm", InitPlayer.x, InitPlayer.y + ahead)>> :
                    ahead \in {10500, 11200}}

InitRun ==
    /\ buildings = InitBuildings
    /\ completed_buildings = {}
    /\ build_log = 0
    /\ completions = [i \in 1..Len(InitBuildings) |-> 0]
    /\ agents = << Sol >>
    /\ agent_assignments = [bid \in BuildingIds |-> <<>>]
    /\ balance = 0
    /\ fractional = 0
    /\ crank = InitCrankState
    /\ player_cranking = FALSE
    /\ crank_log = FALSE
    /\ crank_generated = 0
    /\ crank_gain = 0
    /\ crank_ticks = 0
    /\ player = [InitPlayer EXCEPT !.weapon = "NullPointer"]
    /\ rogues \in RunRogueSets
    /\ god_mode = FALSE
    /\ combat_result = EmptyCombatResult
    /\ world_ticks = 0
    /\ combat_hist = EmptyCombatHist
    /\ walk_log = <<>>
    /\ walk_steps = 0
    /\ purchased = {}
    /\ call = NoCalls
    /\ SideIdle

NextRun == \E inputs \in RunInputs : TickRun(inputs, MaxRunTicks)

SpecRun == InitRun /\ [][NextRun]_vars

(***************************************************************************)
(* Death and respawn: the whole tick of the player next to an Assassin.    *)
(* The client sends inputs in the first ticks and all the while the        *)
(* player is dead.                                                         *)
(***************************************************************************)
MaxDeathTicks == 212
EarlyTicks == 3

DeathInputs == {<<>>, <<Fwd>>, <<FwdAttack>>}
ClientSends(inputs) ==
    inputs = <<>> \/ game_state.player_dead \/ world_ticks < EarlyTicks

InitDeath ==
    /\ buildings = InitBuildings
    /\ completed_buildings = {}
    /\ build_log = 0
    /\ completions = [i \in 1..Len(InitBuildings) |-> 0]
    /\ agents = << Sol >>
    /\ agent_assignments = [bid \in BuildingIds |-> <<>>]
    /\ balance = 0
    /\ fractional = 0
    /\ crank = InitCrankState
    /\ player_cranking = FALSE
    /\ crank_log = FALSE
    /\ crank_generated = 0
    /\ crank_gain = 0
    /\ crank_ticks = 0
    /\ player = InitPlayer
    /\ rogues = <<NewRogue(1, "Assassin", InitPlayer.x, InitPlayer.y + 1000),
                   NewRogue(2, "Assassin", InitPlayer.x + 1000, InitPlayer.y),
                   NewRogue(3, "Assassin", InitPlayer.x - 1000, InitPlayer.y),
                   NewRogue(4, "Assassin", InitPlayer.x, InitPlayer.y - 1000)>>
    /\ god_mode = FALSE
    /\ combat_result = EmptyCombatResult
    /\ world_ticks = 0
    /\ combat_hist = EmptyCombatHist
    /\ walk_log = <<>>
    /\ walk_steps = 0
    /\ purchased = {}
    /\ call = NoCalls
    /\ SideIdle

NextDeath == \E inputs \in DeathInputs : ClientSends(inputs) /\ TickRun(inputs, MaxDeathTicks)

SpecDeath == InitDeath /\ [][NextDeath]_vars

(***************************************************************************)
(* Spawning: spawn_system as the tick loop calls it (main.rs, line 528),   *)
(* with the debug actions that set the phase and toggle spawning.  Chances *)
(* and rolls are in 1/10000; the rolls and the spawn point are the         *)
(* system's random draws.                                                  *)
(***************************************************************************)
MaxSpawnTicks == 2

GamePhases == {"Hut", "Outpost", "Village", "Network", "City"}

\* main.rs, lines 14-23: parse_phase; <<>> is None
parse_phase(s) == IF s \in GamePhases THEN <<s>> ELSE <<>>

\* spawn.rs, lines 21-29
base_rate(phase) == CASE phase = "Hut" -> 20
                      [] phase = "Outpost" -> 50
                      [] phase = "Village" -> 100
                      [] phase = "Network" -> 200
                      [] OTHER -> 300

spawn_chance(phase, building_count) == base_rate(phase) + building_count * 20

\* spawn.rs, lines 43-77: the hostile type for a phase and a roll
rogue_kind(phase, roll) ==
    CASE phase = "Hut" -> IF roll < 7000 THEN "Swarm" ELSE "Corruptor"
      [] phase = "Outpost" ->
            IF roll < 4000 THEN "Swarm"
            ELSE IF roll < 7000 THEN "Corruptor"
            ELSE IF roll < 8500 THEN "Looper"
            ELSE "TokenDrain"
      [] OTHER ->
            IF roll < 2500 THEN "Swarm"
            ELSE IF roll < 4500 THEN "Corruptor"
            ELSE IF roll < 6000 THEN "Looper"
            ELSE IF roll < 7500 THEN "TokenDrain"
            ELSE IF roll < 8500 THEN "Assassin"
            ELSE IF roll < 9500 THEN "Mimic"
            ELSE "Architect"

\* spawn.rs, lines 15-117: the hostiles after one call; gate is the roll for
\* the spawn, roll the roll for the type, off the offset of the spawn point
\* from the player
spawn_system(rs, gs, building_count, px, py, gate, roll, off) ==
    IF gate > spawn_chance(gs.phase, building_count) THEN rs
    ELSE Append(rs, NewRogue(Len(rs) + 1, rogue_kind(gs.phase, roll), px + off[1], py + off[2]))

\* Rolls on both sides of every threshold of the chance and type tables
GateRolls == {0, 60, 61, 340, 341, 9999}
KindRolls == {0, 2499, 2500, 3999, 4000, 4499, 4500, 5999, 6000, 6999, 7000,
              7499, 7500, 8499, 8500, 9499, 9500, 9999}

\* Spawn points at a random angle, 300 to 500 units from the player
RingSq(off) == (off[1] \div 100) * (off[1] \div 100) + (off[2] \div 100) * (off[2] \div 100)
SpawnOffsets == {off \in {<<30000, 0>>, <<-24000, 32000>>, <<0, -49900>>, <<0, 50000>>, <<20000, 0>>} :
                    RingSq(off) >= 300 * 300 /\ RingSq(off) < 500 * 500}

\* main.rs, lines 244-248
DebugToggleSpawning ==
    /\ game_state' = [game_state EXCEPT !.spawning_enabled = ~game_state.spawning_enabled]
    /\ UNCHANGED <<buildG, agentG, balance, fractional, crankG, worldG, walk_log, walk_steps,
                   purchased, call, sideG, vibeG, loop, input_rx, dev, net_hist>>

\* main.rs, lines 262-267
DebugSetPhase(phase) ==
    /\ game_state' = IF parse_phase(phase) /= <<>>
                     THEN [game_state EXCEPT !.phase = parse_phase(phase)[1]]
                     ELSE game_state
    /\ UNCHANGED <<buildG, agentG, balance, fractional, crankG, worldG, walk_log, walk_steps,
                   purchased, call, sideG, vibeG, loop, input_rx, dev, net_hist>>

\* main.rs, lines 527-528: the tick's call of spawn_system
TickSpawn(gate, roll, off) ==
    /\ world_ticks < MaxSpawnTicks
    /\ rogues' = spawn_system(rogues, game_state, Len(buildings), player.x, player.y,
                              gate, roll, off)
    /\ world_ticks' = world_ticks + 1
    /\ UNCHANGED <<buildG, agentG, balance, fractional, crankG, player, god_mode,
                   combat_result, combat_hist, walk_log, walk_steps, purchased, call,
                   sideG, vibeG, loopG>>

PhaseNames == GamePhases \cup {"Metropolis"}

InitSpawn ==
    /\ buildings = InitBuildings
    /\ completed_buildings = {}
    /\ build_log = 0
    /\ completions = [i \in 1..Len(InitBuildings) |-> 0]
    /\ agents = << Sol >>
    /\ agent_assignments = [bid \in BuildingIds |-> <<>>]
    /\ balance = 0
    /\ fractional = 0
    /\ crank = InitCrankState
    /\ player_cranking = FALSE
    /\ crank_log = FALSE
    /\ crank_generated = 0
    /\ crank_gain = 0
    /\ crank_ticks = 0
    /\ player = InitPlayer
    /\ rogues = <<>>
    /\ god_mode = FALSE
    /\ combat_result = EmptyCombatResult
    /\ world_ticks = 0
    /\ combat_hist = EmptyCombatHist
    /\ walk_log = <<>>
    /\ walk_steps = 0
    /\ purchased = {}
    /\ call = NoCalls
    /\ SideIdle

NextSpawn ==
    \/ DebugToggleSpawning
    \/ \E phase \in PhaseNames : DebugSetPhase(phase)
    \/ \E gate \in GateRolls, roll \in KindRolls, off \in SpawnOffsets : TickSpawn(gate, roll, off)

SpecSpawn == InitSpawn /\ [][NextSpawn]_vars

\* A building placed by place_building with a positive build time starts incomplete
StartedIncomplete(i) == i > Len(InitBuildings) /\ buildings[i].total > 0

\* C1: after any sequence of building_system ticks every building has
\* 0 <= ConstructionProgress.current <= ConstructionProgress.total.
ProgressWithinTotal ==
    \A i \in 1..Len(buildings) :
        0 <= buildings[i].current /\ buildings[i].current <= buildings[i].total

\* C1 witness: builders have advanced a placed building part of the way while
\* another building is complete.
ProgressUnderWay ==
    \E i, j \in 1..Len(buildings) :
        /\ 0 < buildings[i].current /\ buildings[i].current < buildings[i].total
        /\ buildings[j].current = buildings[j].total

\* C2: a building that starts incomplete is reported in completed_buildings
\* (with one log line) exactly once, in the tick in which current reaches total;
\* buildings at current = total are never reported (again).
CompletionReportedOnce ==
    /\ \A i \in 1..Len(buildings) :
          /\ completions[i] = IF StartedIncomplete(i) /\ buildings[i].current = buildings[i].total
                              THEN 1 ELSE 0
          /\ i \in completed_buildings => buildings[i].current = buildings[i].total
    /\ build_log = Cardinality(completed_buildings)

\* C2 witness: a building was completed and reported in an earlier tick, and the
\* last tick, run with builders and an incomplete building, reported nothing.
ReportedThenSilent ==
    /\ \E i \in 1..Len(buildings) : completions[i] = 1
    /\ completed_buildings = {}
    /\ builder_count(agents) > 0
    /\ \E j \in 1..Len(buildings) : 0 < buildings[j].current /\ IsIncomplete(buildings[j])

\* C3: starting from fractional = 0, the total that crank_system has added to
\* balance equals floor(S), S being the sum of the generated amounts, however S
\* was split across ticks.
CarryEqualsFloorOfSum == crank_gain = crank_generated \div TokenOne

\* C3 witness: sub-unit generations of several ticks have added up to a whole
\* token that was carried into balance, with a remainder still held.
WholeTokenCarried ==
    /\ crank_gain >= 1
    /\ fractional > 0
    /\ crank_ticks >= 2

\* C4: after every call of crank_system, fractional lies in [0,1) and holds
\* what the carried whole units left over of the generated amounts.
FractionalIsRemainder ==
    /\ 0 <= fractional /\ fractional < TokenOne
    /\ fractional = crank_generated - crank_gain * TokenOne

\* C4 witness: a call of crank_system that carried a whole unit and left a
\* non-zero remainder below one token.
CarryLeftRemainder ==
    /\ crank_ticks >= 1
    /\ crank_gain >= 1
    /\ 0 < fractional /\ fractional < TokenOne
    /\ crank.is_cranking

(***************************************************************************)
(* Hostile-to-player pass of combat_system                                 *)
(***************************************************************************)
CombatStep == world_ticks' = world_ticks + 1

Strikes(r) == /\ InPlayerThreat(r)
              /\ r.kind /= "TokenDrain"
              /\ rogue_damage_to_player(r.kind) > 0

MitigatedHit(kind, armor) ==
    LET d == rogue_damage_to_player(kind) - armor_stats(armor).damage_reduction
    IN  IF d >= 1 THEN d ELSE 1

\* C5: with god_mode off, a combat_system call takes from the player's health,
\* for every non-TokenDrain hostile within 20 units whose raw damage is
\* positive, max(raw - damage_reduction, 1): each such hostile costs at least
\* 1 health whatever armor is worn.
ArmorNeverNegatesHit ==
    [][(CombatStep /\ ~god_mode) =>
          LET hits == [i \in 1..Len(rogues) |->
                          IF Strikes(rogues[i])
                          THEN MitigatedHit(rogues[i].kind, player.armor) ELSE 0]
          IN  /\ player'.health = player.health - SumSeq(hits)
              /\ combat_result'.player_hit_damage = SumSeq(hits)
              /\ \A i \in 1..Len(rogues) : Strikes(rogues[i]) => hits[i] >= 1
              /\ player'.health <= player.health - combat_hist'.strikers]_vars

\* C5 witness: two damaging hostiles stood in range of a player wearing armor
\* whose reduction (18) exceeds their raw damage, and each took 1 health.
PlateStillChipped ==
    /\ world_ticks >= 1
    /\ ~combat_hist.god
    /\ combat_hist.armor = "ConstitutionalPlate"
    /\ combat_hist.strikers = 2
    /\ combat_result.player_damaged
    /\ combat_result.player_hit_damage = 2

DrainedBalance(b, k) ==
    IF k = 0 THEN b ELSE IF b - k >= 0 THEN b - k ELSE 0

AiStep == world_ticks' = world_ticks + 1

HomeSq(r) == (r.x - r.home_x) * (r.x - r.home_x) + (r.y - r.home_y) * (r.y - r.home_y)
PlayerSq(r) == (r.x - player.x) * (r.x - player.x) + (r.y - player.y) * (r.y - player.y)
BeyondLeash(r) == r.guardian /\ HomeSq(r) > r.leash_radius * r.leash_radius
Living(ags) == {a \in 1..Len(ags) : ags[a].state /= "Unresponsive"}

\* C7: after every tick of rogue_ai_system each Assassin that is not a
\* guardian targets, when at least one agent exists, an agent that is alive
\* and whose XP no living agent exceeds, and the player when no agent exists.
AssassinTargetsTopLivingAgent ==
    [][AiStep =>
          \A j \in 1..Len(rogues') :
              (rogues'[j].kind = "Assassin" /\ ~rogues'[j].guardian) =>
                  IF Len(agents) = 0 THEN rogues'[j].target = PlayerTarget
                  ELSE /\ rogues'[j].target[1] = "agent"
                       /\ rogues'[j].target[2] \in Living(agents)
                       /\ \A b \in Living(agents) :
                             agents[b].xp <= agents[rogues'[j].target[2]].xp]_vars

\* C8: a guardian farther from home than leash_radius when a tick starts ends
\* the tick Fleeing, without a target and nearer to home, wherever the player
\* stands.
LeashedGuardianGoesHome ==
    [][AiStep =>
          \A i \in 1..Len(rogues) : BeyondLeash(rogues[i]) =>
              \A j \in 1..Len(rogues') : rogues'[j].id = rogues[i].id =>
                  /\ rogues'[j].behavior_state = "Fleeing"
                  /\ rogues'[j].target = NoTarget
                  /\ HomeSq(rogues'[j]) < HomeSq(rogues[i])
                  /\ (rogues'[j].x - rogues[i].x) * (rogues[i].home_x - rogues[i].x)
                       + (rogues'[j].y - rogues[i].y) * (rogues[i].home_y - rogues[i].y) > 0]_vars

\* C8 witness: a guardian turned for home with the player inside its 20-unit
\* attack radius.
FledWithPlayerInReach ==
    /\ world_ticks >= 1
    /\ \E i \in 1..Len(rogues) :
          /\ rogues[i].guardian
          /\ rogues[i].behavior_state = "Fleeing"
          /\ rogues[i].target = NoTarget
          /\ PlayerSq(rogues[i]) < 2000 * 2000

\* C9: a guardian is never farther from home than leash_radius plus one tick
\* of movement at its type's speed, and a tick that starts with it beyond
\* leash_radius does not take it farther from home.
LeashBoundsExcursion ==
    /\ [](\A i \in 1..Len(rogues) : rogues[i].guardian =>
             HomeSq(rogues[i]) <= (rogues[i].leash_radius + speed_for_type(rogues[i].kind))
                                    * (rogues[i].leash_radius + speed_for_type(rogues[i].kind)))
    /\ [][AiStep =>
             \A i \in 1..Len(rogues) : BeyondLeash(rogues[i]) =>
                 \A j \in 1..Len(rogues') : rogues'[j].id = rogues[i].id =>
                     HomeSq(rogues'[j]) <= HomeSq(rogues[i])]_vars

\* C9 witness: a chase carried a guardian past its leash, by less than one
\* tick of movement, and the next tick brought it back inside.
StrayedAndReturned ==
    /\ world_ticks >= 2
    /\ \E i \in 1..Len(rogues) :
          /\ rogues[i].guardian
          /\ rogues[i].behavior_state = "Fleeing"
          /\ HomeSq(rogues[i]) <= rogues[i].leash_radius * rogues[i].leash_radius
          /\ HomeSq(rogues[i]) > (rogues[i].leash_radius - speed_for_type(rogues[i].kind))
                                   * (rogues[i].leash_radius - speed_for_type(rogues[i].kind))

WalkableByStatedRule ==
    \A i \in 1..Len(walk_log) :
        LET wx == walk_log[i].wx
            wy == walk_log[i].wy
            high == is_elevated(wx, wy)
            cliff == ~high /\ (is_elevated(wx, wy - 1) \/ is_elevated(wx, wy - 2))
        IN  /\ high => walk_log[i].walkable
            /\ cliff => ~walk_log[i].walkable
            /\ (~high /\ ~cliff /\ ~is_water(wx, wy)) => walk_log[i].walkable

\* C11, amended: water comes first; elevated ground that is not water is
\* walkable, as is every tile that is neither water nor a cliff; water and
\* the two rows of cliff below elevated ground are not.
WalkableByRuleWaterFirst ==
    \A i \in 1..Len(walk_log) :
        LET wx == walk_log[i].wx
            wy == walk_log[i].wy
            high == is_elevated(wx, wy)
            cliff == ~high /\ (is_elevated(wx, wy - 1) \/ is_elevated(wx, wy - 2))
        IN  walk_log[i].walkable <=> (~is_water(wx, wy) /\ ~cliff)

\* C11 witness: the player on high ground was refused a step onto a tile that
\* is both elevated and water.
HighWaterRefused ==
    \E i \in 1..Len(walk_log) :
        /\ is_elevated(walk_log[i].wx, walk_log[i].wy)
        /\ is_water(walk_log[i].wx, walk_log[i].wy)
        /\ ~walk_log[i].walkable
        /\ is_elevated(pixel_to_tile(player.x), pixel_to_tile(player.y))

(***************************************************************************)
(* Refusals                                                                *)
(***************************************************************************)
\* C12: a purchase that succeeds takes exactly the upgrade's cost from the
\* balance and adds the upgrade to the purchased set; a purchase of an
\* upgrade already in the set returns "already purchased" and leaves the
\* balance and the set as they were.
PurchasedOnceOnly ==
    [][(call'.op = "purchase" /\ call'.n = call.n + 1) =>
          /\ call'.err = "ok" =>
                 /\ call'.arg \notin purchased
                 /\ balance' = balance - upgrade_cost(call'.arg)
                 /\ purchased' = purchased \cup {call'.arg}
          /\ call'.arg \in purchased =>
                 /\ call'.err = "already purchased"
                 /\ balance' = balance
                 /\ purchased' = purchased]_vars

\* C12 witness: with 100 tokens the 75-token upgrade was bought once, a
\* second purchase was refused, and 25 tokens remain.
RepeatPurchaseRefused ==
    /\ call.op = "purchase"
    /\ call.arg = "VerboseLogging"
    /\ call.err = "already purchased"
    /\ purchased = {"VerboseLogging"}
    /\ balance = 25

\* C13: a call of purchase, recruit_agent, place_building or assign_task that
\* returns Err leaves the balance, the purchased set, the buildings and the
\* agents (their number, states and assignments) exactly as they were.
RefusalChangesNothing ==
    [][(call'.n = call.n + 1 /\ call'.err /= "ok") =>
          /\ call'.op \in {"purchase", "recruit_agent", "place_building", "assign_task"}
          /\ UNCHANGED <<balance, purchased, buildings, agents>>]_vars

\* C13 witness: three calls in a row were refused - the last an assign_task on
\* an Unresponsive agent - and nothing has changed since the start.
ThreeRefusals ==
    /\ call.n = 3
    /\ call.op = "assign_task"
    /\ call.err = "Agent is unresponsive"
    /\ purchased = {}
    /\ buildings = InitBuildings
    /\ Len(agents) = 2
    /\ balance \in ShopBalances

(***************************************************************************)
(* Kills                                                                   *)
(***************************************************************************)
MeleeStruck(r) ==
    /\ combat_result'.player_attacked
    /\ ~weapon_stats(player.weapon).is_projectile
    /\ MeleeHits(player, r)

\* C14: in the tick in which a melee hit takes a hostile to 0 health or less,
\* its bounty is added to the balance, it leaves the world, and the snapshot
\* lists its id as removed and not as changed; a hostile that survives its
\* hit is listed as changed, with the damage taken, and not as removed.
KillPaysAndRemoves ==
    [][CombatStep =>
          LET struck == {i \in 1..Len(rogues) : MeleeStruck(rogues[i])}
              slain == {i \in struck :
                          rogues[i].health - weapon_stats(player.weapon).base_damage <= 0}
              drains == IF god_mode THEN 0
                        ELSE Cardinality({i \in 1..Len(rogues) :
                                 InPlayerThreat(rogues[i]) /\ rogues[i].kind = "TokenDrain"})
          IN  /\ balance' = DrainedBalance(balance, drains)
                               + SumSeq([i \in 1..Len(rogues) |->
                                            IF i \in slain THEN bounty_for(rogues[i].kind) ELSE 0])
              /\ \A i \in slain :
                     /\ rogues[i].id \in entities_removed(combat_result')
                     /\ rogues[i].id \notin entities_changed(rogues')
              /\ \A i \in 1..Len(rogues) \ slain :
                     /\ rogues[i].id \notin entities_removed(combat_result')
                     /\ \E j \in 1..Len(rogues') :
                           /\ rogues'[j].id = rogues[i].id
                           /\ rogues'[j].health =
                                 IF i \in struck
                                 THEN rogues[i].health - weapon_stats(player.weapon).base_damage
                                 ELSE rogues[i].health]_vars

\* C14 witness: the second 8-damage hit on a 15-health Swarm killed it; its
\* bounty of 5 was credited and the snapshot lists it as removed.
SecondHitKilled ==
    /\ world_ticks = 1
    /\ player.weapon = "ProcessTerminator"
    /\ combat_result.player_attacked
    /\ combat_result.killed_rogues = <<1>>
    /\ combat_result.bounty_tokens = bounty_for("Swarm")
    /\ balance = bounty_for("Swarm")
    /\ entities_changed(rogues) = {}
    /\ entities_removed(combat_result) = {1}

(***************************************************************************)
(* Crank heat                                                              *)
(***************************************************************************)
CrankStep == crank_ticks' = crank_ticks + 1
Unattended == passive_tokens(crank.tier) + (IF AgentAssigned THEN agent_bonus(crank.tier) ELSE 0)

\* C15: the heat stays between 0 and max_heat whatever the mix of cranking
\* and idle ticks, and a cranking tick that starts below max_heat generates
\* tokens_per_rotation times the tier's efficiency (on top of what the wheel
\* yields unattended) also when the heat increase is cut off at max_heat.
HeatBoundedAndClampedTickPays ==
    /\ [](0 <= crank.heat /\ crank.heat <= max_heat)
    /\ [][(CrankStep /\ player_cranking /\ crank.heat < max_heat) =>
             /\ crank'.heat = (IF crank.heat + heat_rate > max_heat
                               THEN max_heat ELSE crank.heat + heat_rate)
             /\ crank_generated' - crank_generated =
                    (tokens_per_rotation * efficiency2(crank.tier)) \div 2 + Unattended]_vars

\* C15 witness: four ticks from heat 98.0 ended with a cranking tick at heat
\* 100.0, which only a tick starting at 99.5 and cut off at 100.0 gives.
ClampedTickPaid ==
    /\ crank_ticks = 4
    /\ crank.heat = max_heat
    /\ crank.is_cranking
    /\ crank_generated >= 3 * tokens_per_rotation

\* C16: a tick on which the player cranks with heat at max_heat generates no
\* manual tokens, leaves the heat as it is, ends with is_cranking false and
\* returns the overheat message; the heat goes down only in a tick on which
\* the player does not crank.
OverheatRefusesCrank ==
    /\ [][(CrankStep /\ player_cranking /\ crank.heat >= max_heat) =>
             /\ crank_generated' - crank_generated = Unattended
             /\ crank'.heat = crank.heat
             /\ ~crank'.is_cranking
             /\ crank_log']_vars
    /\ [][crank'.heat < crank.heat => (CrankStep /\ ~player_cranking)]_vars

\* C16 witness: the wheel is at max_heat, the player is cranking and the last
\* tick refused the crank with the overheat message.
CrankRefusedHot ==
    /\ crank_ticks >= 1
    /\ player_cranking
    /\ crank.heat = max_heat
    /\ ~crank.is_cranking
    /\ crank_log

(***************************************************************************)
(* Hostiles against agents                                                 *)
(***************************************************************************)
\* C17: in one tick of combat_system each hostile damages at most one agent:
\* the health the agents lose is accounted for by giving every hostile one
\* agent, or none, to take its per-type damage from.
HostileDamagesOneAgent ==
    [][AiStep =>
          \E victim \in [1..Len(rogues) -> 0..Len(agents)] :
              \A a \in 1..Len(agents) :
                  agents[a].health - agents'[a].health =
                      SumSeq([h \in 1..Len(rogues) |->
                                 IF victim[h] = a THEN rogue_damage_to_agent(rogues[h].kind)
                                 ELSE 0])]_vars

\* C18: from the tick after an agent has become Unresponsive, rogue_ai_system
\* never makes it a hostile's target, combat_system takes no health from it
\* and does not record it as killed again, and it stays in the world.
UnresponsiveLeftAlone ==
    [][AiStep =>
          /\ Len(agents') = Len(agents)
          /\ \A a \in 1..Len(agents) : agents[a].state = "Unresponsive" =>
                 /\ \A j \in 1..Len(rogues') : rogues'[j].target /= <<"agent", a>>
                 /\ agents'[a] = agents[a]
                 /\ \A k \in 1..Len(combat_result'.killed_agents) :
                        combat_result'.killed_agents[k] /= a]_vars

\* C19: while god_mode is set a tick of combat_system takes no health from
\* the player and no token for a TokenDrain, whatever hostiles stand within
\* 20 units: the balance changes by the bounties of the tick alone.
GodModeSkipsHostiles ==
    [][(CombatStep /\ god_mode) =>
          /\ player'.health = player.health
          /\ ~combat_result'.player_damaged
          /\ combat_result'.player_hit_damage = 0
          /\ balance' = balance + combat_result'.bounty_tokens]_vars

\* C19 witness: in god mode a TokenDrain and a damaging hostile stood within
\* 20 units for a tick, and the player still has 100 health and 12 tokens.
GodModeHeld ==
    /\ world_ticks >= 1
    /\ combat_hist.god
    /\ combat_hist.drains = 1
    /\ combat_hist.strikers = 1
    /\ player.health = 100
    /\ balance = 12
    /\ combat_result.bounty_tokens = 0

Hunts(r) == ~r.guardian /\ r.kind /= "Assassin"
\* squared distance from hostile r to candidate c: 0 is the player, a > 0 the
\* a-th agent in scan order
CandidateSq(r, c) ==
    IF c = 0 THEN (player.x - r.x) * (player.x - r.x) + (player.y - r.y) * (player.y - r.y)
    ELSE (agents[c].x - r.x) * (agents[c].x - r.x) + (agents[c].y - r.y) * (agents[c].y - r.y)
CandidateOf(t) == IF t = <<"player", 0>> THEN 0 ELSE IF t[1] = "agent" THEN t[2] ELSE -1

\* C20: after a tick of rogue_ai_system the target of every hostile that is
\* neither a guardian nor an Assassin is the player or an agent at the least
\* squared distance from where the hostile stood when the tick began, and of
\* several at that distance the one scanned first, the player before any
\* agent.
NearestCandidateEarliestOnTie ==
    [][AiStep =>
          \A i \in 1..Len(rogues) : Hunts(rogues[i]) =>
              \A j \in 1..Len(rogues') : rogues'[j].id = rogues[i].id =>
                  LET t == CandidateOf(rogues'[j].target)
                  IN  /\ t \in 0..Len(agents)
                      /\ \A c \in 0..Len(agents) :
                             /\ CandidateSq(rogues[i], t) <= CandidateSq(rogues[i], c)
                             /\ c < t => CandidateSq(rogues[i], t) < CandidateSq(rogues[i], c)]_vars

\* C20 witness: a Swarm that stood exactly as far from the player as from
\* "sol" took the player, and one exactly between two agents took the first.
TieWentToEarliest ==
    /\ world_ticks = 1
    /\ Len(rogues) = 1
    /\ rogues[1].kind = "Swarm"
    /\ \/ /\ rogues[1].target = <<"player", 0>>
          /\ rogues[1].x - rogues[1].vx = 41000
          /\ rogues[1].y - rogues[1].vy = 34500
       \/ /\ rogues[1].target = <<"agent", 1>>
          /\ Len(agents) = 2
          /\ rogues[1].x - rogues[1].vx = 41500
          /\ rogues[1].y - rogues[1].vy = 38000

\* C25: in a tick of rogue_ai_system no hostile moves farther than its type's
\* speed, a patrolling guardian no farther than 0.4 of it, and a hostile of a
\* type with speed 0 stays where it is.
NoFasterThanTypeSpeed ==
    [][AiStep =>
          \A i \in 1..Len(rogues) : \A j \in 1..Len(rogues') :
              rogues'[j].id = rogues[i].id =>
                  LET dx == rogues'[j].x - rogues[i].x
                      dy == rogues'[j].y - rogues[i].y
                      speed == speed_for_type(rogues[i].kind)
                  IN  /\ dx * dx + dy * dy <= speed * speed
                      /\ (rogues[i].guardian /\ rogues'[j].behavior_state = "Wandering")
                             => 100 * (dx * dx + dy * dy) <= 16 * speed * speed
                      /\ speed = 0 => (dx = 0 /\ dy = 0)]_vars

\* C25 witness: a Mimic with a target 18 units away has not moved in three
\* ticks.
MimicStoodStill ==
    /\ world_ticks = MaxWorldTicks
    /\ \E i \in 1..Len(rogues) :
          /\ rogues[i].kind = "Mimic"
          /\ rogues[i].target /= NoTarget
          /\ rogues[i].behavior_state = "Attacking"
          /\ rogues[i].x = 41500 /\ rogues[i].y = 38000

(***************************************************************************)
(* Movement                                                                *)
(***************************************************************************)
\* ground the player may stand on: neither water nor one of the two rows of
\* cliff below elevated ground
Standable(wx, wy) ==
    /\ ~is_water(wx, wy)
    /\ is_elevated(wx, wy) \/ (~is_elevated(wx, wy - 1) /\ ~is_elevated(wx, wy - 2))

\* C27: a movement input applies its X step only if the tile at (new x,
\* current y) is walkable, then its Y step only if the tile at (x after the X
\* step, new y) is walkable; the player, who starts on a walkable tile, is on
\* a walkable tile after every input.
MovesAxisByAxisOnWalkable ==
    /\ [](Standable(pixel_to_tile(player.x), pixel_to_tile(player.y)))
    /\ [][walk_steps' = walk_steps + 1 =>
             LET effective_speed ==
                     (PLAYER_SPEED * (100 - armor_stats(player.armor).speed_penalty)) \div 100
                 nx == player.x + AxisStep(player'.fdx, player'.fdy, effective_speed)
                 ny == player.y + AxisStep(player'.fdy, player'.fdx, effective_speed)
             IN  /\ player'.x = IF Standable(pixel_to_tile(nx), pixel_to_tile(player.y))
                                THEN nx ELSE player.x
                 /\ player'.y = IF Standable(pixel_to_tile(player'.x), pixel_to_tile(ny))
                                THEN ny ELSE player.y]_vars

\* C27 witness: a diagonal input whose X step was refused and whose Y step
\* was applied - the player slid along the obstacle.
SlidAlongObstacle ==
    /\ walk_steps = 1
    /\ player.fdx /= 0 /\ player.fdy /= 0
    /\ ~walk_log[1].walkable
    /\ walk_log[2].walkable
    /\ \E sp \in WalkSpots : player.x = sp[1] /\ player.y /= sp[2]

(***************************************************************************)
(* Projectiles                                                             *)
(***************************************************************************)
\* the projectiles projectile_system meets on a step: those in flight and the
\* one the step's attack spawned
MetByProjectileSystem ==
    IF combat_result'.player_attacked /\ weapon_stats(player'.weapon).is_projectile
    THEN Append(projectiles, NewProjectile(player', ProjectileId(world_ticks')))
    ELSE projectiles

\* a hostile that outlived the step's melee lies within the hit radius of (px, py)
HostileWithinHit(px, py) ==
    \E j \in 1..Len(rogues) :
        /\ \A i \in 1..Len(combat_result'.killed_rogues) :
               combat_result'.killed_rogues[i] /= rogues[j].id
        /\ (px - rogues[j].x) * (px - rogues[j].x) + (py - rogues[j].y) * (py - rogues[j].y)
               <= HIT_RANGE * HIT_RANGE

Reported(id) ==
    \E i \in 1..Len(projectile_result'.despawned) : projectile_result'.despawned[i] = id

FlightCalls(p) ==
    LET range == p.range_remaining + p.calls * p.speed
    IN  (range + p.speed - 1) \div p.speed

\* C30: a projectile is gone, and reported in ProjectileResult.despawned,
\* within ceil(range / speed) projectile_system calls of its spawning:
\* range_remaining drops by speed on every call, the projectile is removed
\* when range_remaining <= 0 or on its first hit and never otherwise, and a
\* call on which no projectile with range left is within reach of a hostile
\* harms no hostile.
ProjectileGoneWithinItsRange ==
    /\ [](\A i \in 1..Len(projectiles) :
             /\ projectiles[i].range_remaining > 0
             /\ projectiles[i].calls < FlightCalls(projectiles[i]))
    /\ [][CombatStep =>
             LET met == MetByProjectileSystem
                 nx(p) == p.x + AxisStep(p.dx, p.dy, p.speed)
                 ny(p) == p.y + AxisStep(p.dy, p.dx, p.speed)
                 spent(p) == p.range_remaining - p.speed <= 0
                 hits(p) == ~spent(p) /\ HostileWithinHit(nx(p), ny(p))
             IN  /\ \A i \in 1..Len(met) :
                        IF spent(met[i]) \/ hits(met[i])
                        THEN /\ Reported(met[i].id)
                             /\ \A k \in 1..Len(projectiles') : projectiles'[k].id /= met[i].id
                        ELSE /\ ~Reported(met[i].id)
                             /\ \E k \in 1..Len(projectiles') :
                                    /\ projectiles'[k].id = met[i].id
                                    /\ projectiles'[k].range_remaining
                                           = met[i].range_remaining - met[i].speed
                                    /\ projectiles'[k].calls = met[i].calls + 1
                 /\ Len(projectile_result'.despawned)
                        = Cardinality({i \in 1..Len(met) : spent(met[i]) \/ hits(met[i])})
                 /\ (\A i \in 1..Len(met) : ~hits(met[i]))
                        => /\ projectile_result'.killed_rogues = <<>>
                           /\ projectile_result'.bounty_tokens = 0
                           /\ \A j \in 1..Len(rogues) : \A k \in 1..Len(rogues') :
                                  rogues'[k].id = rogues[j].id
                                      => \/ rogues'[k].health = rogues[j].health
                                         \/ MeleeStruck(rogues[j])]_vars

\* C30 witness: the shot of tick 1 flew its 120 units in 20 calls and was
\* removed on the 20th, within the hit radius of a hostile it left unharmed.
ShotSpentBesideHostile ==
    /\ world_ticks = 20
    /\ projectile_result.despawned = <<ProjectileId(1)>>
    /\ projectile_result.killed_rogues = <<>>
    /\ projectiles = <<>>
    /\ rogues = <<RogueAtShot(1, "Swarm", 4)>>

(***************************************************************************)
(* The attack cooldown                                                     *)
(***************************************************************************)
\* the cooldown has run out once the tick has decremented it
OffCooldown == DecrementCooldown(player).cooldown_remaining = 0

\* C24: an attack takes effect only on a tick that received an Attack input
\* and whose decremented cooldown_remaining is 0, and it sets
\* cooldown_remaining to cooldown_ticks; two attacks that took effect with the
\* same weapon are at least cooldown_ticks ticks apart; on a tick that starts
\* within the cooldown no attack takes effect whatever the input: the cooldown
\* goes down by one, combat_system kills and pays nothing, no projectile is
\* spawned and a hostile loses health only to a projectile already in flight.
AttackWaitsForCooldown ==
    [][CombatStep =>
          LET w == weapon_stats(player.weapon)
          IN  /\ combat_result'.player_attacked
                    => /\ OffCooldown
                       /\ player'.cooldown_remaining = w.cooldown_ticks
                       /\ ~TickPipeline(FALSE, MaxShotTicks)
                       /\ (attack_log.tick > 0 /\ attack_log.weapon = player.weapon)
                              => world_ticks' - attack_log.tick >= w.cooldown_ticks
              /\ ~OffCooldown
                    => /\ ~combat_result'.player_attacked
                       /\ player'.cooldown_remaining = player.cooldown_remaining - 1
                       /\ combat_result'.killed_rogues = <<>>
                       /\ combat_result'.bounty_tokens = 0
                       /\ \A k \in 1..Len(projectiles') :
                              projectiles'[k].id /= ProjectileId(world_ticks')
                       /\ ~Reported(ProjectileId(world_ticks'))
                       /\ projectiles = <<>> => rogues' = rogues]_vars

\* C24 witness: the crossbow fired on tick 1 and again on tick 17, as soon as
\* its 16-tick cooldown allowed; both shots are in flight.
FiredAgainAfterCooldown ==
    /\ world_ticks = 17
    /\ combat_result.player_attacked
    /\ attack_log = [tick |-> 17, weapon |-> "NullPointer"]
    /\ player.cooldown_remaining = 16
    /\ Len(projectiles) = 2
    /\ projectiles[1].id = ProjectileId(1)
    /\ projectiles[2].id = ProjectileId(17)

(***************************************************************************)
(* Placement                                                               *)
(***************************************************************************)
Infrastructure == {"Pylon", "ComputeFarm"}

Standing(kind) == Cardinality({i \in 1..Len(buildings) : buildings[i].kind = kind})

\* ceil(base * 1.5^n)
CostOfNext(kind) ==
    IF kind \in Infrastructure
    THEN LET n == Standing(kind)
         IN  (token_cost(kind) * Pow(3, n) + Pow(2, n) - 1) \div Pow(2, n)
    ELSE token_cost(kind)

EconomyStep == economy_ticks' = economy_ticks + 1

\* income_per_tick - expenditure_per_tick, in 1/10000 token
NetPerTick(rates) == rates.income_per_tick - rates.expenditure_per_tick

FogWindow == (-24..34) \X (-3..6)

\* the tiles whose centre is within the radius of one of the lights
LitBy(lights) ==
    {LitTile(t) : t \in {u \in FogWindow :
        \E k \in 1..Len(lights) :
            LET dx == u[1] * TILE_SIZE + 8 - lights[k][1]
                dy == u[2] * TILE_SIZE + 8 - lights[k][2]
            IN  dx * dx + dy * dy <= lights[k][3] * lights[k][3]}}

\* C28: over any sequence of update_light calls the revealed set only grows,
\* no chunk is returned as newly revealed twice - a call returns exactly the
\* chunks of its lit tiles that were not revealed before -, lit_tiles holds
\* exactly the tiles lit by the last call's light sources (none for an empty
\* list), and the chunk of every lit tile is revealed.
FogRevealsOnceLightsAnew ==
    /\ [](/\ fog.lit_tiles = LitBy(fog_hist.lights)
          /\ \A t \in fog.lit_tiles : <<t[1], t[2]>> \in fog.revealed
          /\ \A i \in 1..Len(fog_hist.returned) : \A j \in 1..Len(fog_hist.returned) :
                 fog_hist.returned[i] = fog_hist.returned[j] => i = j
          /\ fog.revealed = {fog_hist.returned[i] : i \in 1..Len(fog_hist.returned)})
    /\ [][/\ fog.revealed \subseteq fog'.revealed
          /\ fog_hist'.calls = fog_hist.calls + 1 =>
                {fog_hist'.newly_revealed[i] : i \in 1..Len(fog_hist'.newly_revealed)}
                    = {<<t[1], t[2]>> : t \in fog'.lit_tiles} \ fog.revealed]_vars

\* C28 witness: the light of the first call, put out in the second, was lit
\* again in the third: five tiles lit, and none of the three chunks it
\* revealed in the first call returned again.
SameLightRevealsNothingNew ==
    /\ fog_hist.calls = 3
    /\ fog_hist.lights = << <<8, 8, 20>> >>
    /\ fog_hist.newly_revealed = <<>>
    /\ Len(fog_hist.returned) = 3
    /\ Cardinality(fog.lit_tiles) = 5
    /\ fog.revealed = {<<0, 0>>, <<-1, 0>>, <<0, -1>>}

(***************************************************************************)
(* Session management                                                      *)
(***************************************************************************)
VibeStep == vibe_hist'.ticks = vibe_hist.ticks + 1

\* C26: a session-management step tries to start a session only for an agent
\* in the Building state that has no session and is not flagged; a try that
\* fails flags the agent, and a flagged agent is not tried again and stays
\* flagged until an UnassignAgentFromProject input clears the flag; an agent
\* that has a session is never given another.
FailedStartNotRetried ==
    /\ [][VibeStep =>
             \A a \in 1..Len(agents) :
                 /\ a \in vibe_hist'.attempted
                       => /\ a \notin vibe.sessions
                          /\ a \notin vibe.failed_spawns
                          /\ agents[a].state = "Building"
                 /\ (a \in vibe_hist'.attempted /\ a \notin vibe_hist'.started)
                       => a \in vibe'.failed_spawns
                 /\ a \in vibe_hist'.started => a \notin vibe'.failed_spawns
                 /\ a \in vibe.failed_spawns
                       => a \notin vibe_hist'.attempted /\ a \in vibe'.failed_spawns]_vars
    /\ [][\A a \in vibe.failed_spawns :
             a \notin vibe'.failed_spawns
                 => /\ ~VibeStep
                    /\ call'.op = "assign_task" /\ call'.arg = "Idle"
                    /\ call'.n = call.n + 1
                    /\ a \notin vibe'.sessions]_vars

\* C26 witness: the one start tried for the assigned agent failed on the
\* first step, and the two later steps left the flagged agent alone.
FlaggedAgentLeftAlone ==
    /\ vibe_hist.ticks = MaxVibeTicks
    /\ vibe_hist.attempts = 1
    /\ vibe_hist.attempted = {}
    /\ vibe.failed_spawns = {1}
    /\ vibe.sessions = {}
    /\ agents[1].state = "Building"

\* C21: no step of a tick waits on an external process: while it handles
\* StartDevServer or StopDevServer the tick loop is never suspended until the
\* dev server listens or has exited
ExternalWaits == {"await_ready", "await_exit"}
TickNeverWaitsOnProcess == loop.pc \notin ExternalWaits

\* C22: whatever the interleaving of the read task and the tick loop, the
\* inputs decoded are handled once each and in arrival order, each in the
\* drain of a tick whose systems have not run yet; the drain goes on without
\* waiting when the channel is empty; and each tick sends one update, whose
\* tick is one more than the one before
HandledOnceInOrder ==
    /\ Len(net_hist.handled) + Len(input_rx) = net_hist.decoded
    /\ \A i \in 1..Len(net_hist.handled) : net_hist.handled[i].id = i
    /\ \A i \in 1..Len(input_rx) : input_rx[i].id = Len(net_hist.handled) + i
OneUpdatePerTick ==
    /\ \A i \in 1..Len(net_hist.updates) : net_hist.updates[i] = i
    /\ Len(net_hist.updates) = IF loop.pc = "tick" THEN loop.tick ELSE loop.tick - 1
HandledBeforeSystems ==
    Len(net_hist.handled') > Len(net_hist.handled) =>
        /\ loop.pc = "drain"
        /\ net_hist.handled' = Append(net_hist.handled, [id |-> Head(input_rx).id, tick |-> loop.tick])
        /\ \A i \in 1..Len(net_hist.systems) : net_hist.systems[i] < loop.tick
DrainNeverWaits ==
    loop.pc = "drain" => ENABLED (DrainInput \/ RunSystems)
InputsDrainedInOrderOneUpdatePerTick ==
    /\ [](HandledOnceInOrder /\ OneUpdatePerTick /\ DrainNeverWaits)
    /\ [][HandledBeforeSystems]_vars
LateInputHandledNextTick ==
    /\ Len(net_hist.handled) = 3
    /\ net_hist.handled[2].tick = 1
    /\ net_hist.handled[3].tick = 2
    /\ net_hist.updates = <<1, 2>>

\* C31: after any sequence of assign_agent and unassign_agent calls every
\* building's list holds at most 3 agent ids, none twice; assign_agent returns
\* false and leaves the list as it was when the building has 3 agents or
\* lists the agent already, and otherwise returns true and appends the agent
NoDuplicates(list) == \A i, j \in 1..Len(list) : list[i] = list[j] => i = j
ListsBounded ==
    \A bid \in DOMAIN agent_assignments :
        Len(agent_assignments[bid]) <= 3 /\ NoDuplicates(agent_assignments[bid])
Lists(list, id) == \E i \in 1..Len(list) : list[i] = id
AssignAnswered ==
    (call'.n = call.n + 1 /\ call'.op = "assign_agent") =>
        LET bid == call'.arg[1]
            id == call'.arg[2]
            list == agent_assignments[bid]
        IN  IF Len(list) >= 3 \/ Lists(list, id)
            THEN call'.err = FALSE /\ agent_assignments' = agent_assignments
            ELSE /\ call'.err = TRUE
                 /\ agent_assignments' = [agent_assignments EXCEPT ![bid] = Append(@, id)]
AtMostThreeNoDuplicates == []ListsBounded /\ [][AssignAnswered]_vars
FourthAgentRefused ==
    /\ call.op = "assign_agent"
    /\ call.err = FALSE
    /\ Len(agent_assignments[call.arg[1]]) = 3
    /\ ~Lists(agent_assignments[call.arg[1]], call.arg[2])

\* C32: with no debug token command used, economy.balance is >= 0 at the end
\* of every tick, whatever wages and Erroring agents take from it
BalanceNeverNegative == balance >= 0

\* C33: the hostile-to-player pass of combat_system never increases
\* economy.balance: from every reachable balance, a negative one included,
\* the balance after the TokenDrain handling is at most the balance before
AfterPlayerPass ==
    PlayerPass(rogues, 1, player,
               [health |-> player.health, balance |-> balance, hit |-> 0, damaged |-> FALSE])
PlayerPassNeverAddsTokens == AfterPlayerPass.balance <= balance

\* C35: in the snapshot of every tick the player's cooldown_remaining is at
\* most the cooldown_ticks of the weapon equipped, so attack_cooldown_pct is
\* within [0, 1], whatever attacks and EquipWeapon actions came before
CooldownWithinWeapon ==
    [][world_ticks' /= world_ticks =>
          player'.cooldown_remaining <= weapon_stats(player'.weapon).cooldown_ticks]_vars

\* C34: a hostile's bounty is credited at most once: in every tick each
\* hostile appears at most once in the killed_rogues lists of combat_system
\* and projectile_system taken together, it is gone from the world after the
\* tick, and its per-type bounty is added to economy.balance once, also when
\* several projectiles reach it on the same tick
KilledThisTick == combat_result'.killed_rogues \o projectile_result'.killed_rogues
Dist(a, b) == IF a >= b THEN a - b ELSE b - a
EffectiveSpeed == (PLAYER_SPEED * (100 - armor_stats(player.armor).speed_penalty)) \div 100
OneStepPerTick ==
    [][(world_ticks' /= world_ticks /\ ~game_state.player_dead) =>
          /\ Dist(player'.x, player.x) <= EffectiveSpeed
          /\ Dist(player'.y, player.y) <= EffectiveSpeed]_vars

\* C39: player_dead is true exactly when death_tick is set; a living player
\* whose health is <= 0 at the death check of tick T becomes dead with
\* death_tick = T; while the player is dead the inputs of a tick are dropped
\* without effect; and the player respawns, alive with death_tick cleared,
\* full health and at (400, 300), in tick T + 200 and in no tick before it
DeadIffDeathTick == game_state.player_dead <=> game_state.death_tick /= <<>>
DeathAndRespawn ==
    world_ticks' /= world_ticks =>
        LET T == world_ticks'
            checked == player.health - combat_result'.player_hit_damage
        IN  /\ ~game_state.player_dead =>
                  IF checked <= 0
                  THEN /\ game_state'.player_dead /\ game_state'.death_tick = <<T>>
                       /\ player'.health = checked
                  ELSE ~game_state'.player_dead /\ player'.health = checked
            /\ game_state.player_dead =>
                  /\ ~combat_result'.player_attacked
                  /\ player'.fdx = player.fdx /\ player'.fdy = player.fdy
                  /\ IF T - game_state.death_tick[1] >= 200
                     THEN /\ ~game_state'.player_dead
                          /\ player'.health = player'.max
                          /\ player'.x = 40000 /\ player'.y = 30000
                     ELSE /\ game_state'.player_dead
                          /\ game_state'.death_tick = game_state.death_tick
                          /\ player'.x = player.x /\ player'.y = player.y
DeadForTwoHundredTicks == []DeadIffDeathTick /\ [][DeathAndRespawn]_vars
RespawnedAtStart ==
    /\ world_ticks > 200
    /\ ~game_state.player_dead
    /\ player.health = player.max
    /\ player.x = 40000 /\ player.y = 30000
    /\ player.fdx = 0 /\ player.fdy = 1
    /\ attack_log.tick > 0

\* C36: after any sequence of AssignAgentToProject and UnassignAgentFromProject
\* actions, whatever agent and building ids they name, each agent id is in
\* the assignment list of at most one building
BuildingsListing(a) ==
    {bid \in DOMAIN agent_assignments :
        \E i \in 1..Len(agent_assignments[bid]) : agent_assignments[bid][i] = a}
AgentInAtMostOneList == \A a \in 1..MaxAgents : Cardinality(BuildingsListing(a)) <= 1

\* C37: a Dormant, still Recruitable agent changes state only in a step that
\* found balance >= its cost, deducts that cost and recruits it; no other
\* player action and no system moves it out of Dormant
DormantLeavesOnlyByPaying ==
    [][\A a \in 1..Len(agents) :
          (/\ agents[a].state = "Dormant"
           /\ agents[a].recruitable
           /\ agents'[a].state /= "Dormant")
          => /\ balance >= agents[a].cost
             /\ balance' = balance - agents[a].cost
             /\ ~agents'[a].recruitable]_vars

\* C38: while game_state.spawning_enabled is false, the tick's call of
\* spawn_system adds no hostile to the world, whatever the phase, the
\* building count and the rolls
NoSpawnWhileDisabled ==
    [][(world_ticks' /= world_ticks /\ ~game_state.spawning_enabled) => rogues' = rogues]_vars
====
